---- MODULE Spec2Model ----
(***************************************************************************)
(* A model of the scrapers and enrichment scripts that share the Google    *)
(* sheet "Webscraper Tool for Procurement Sites Two": the append / replace *)
(* writers (sf_contracts, txdot_contracts, tn_tdot_contracts,              *)
(* austin_contracts), the USA Spending importer, and the two enrichment    *)
(* scripts with their persisted call budgets.                              *)
(***************************************************************************)
EXTENDS Integers, Sequences, FiniteSets, TLC

VARIABLES
    sheet,      \* the shared sheet: a sequence of rows, row 1 is the header
    pc,         \* position of the current scraper run: "idle", "cleaned", "fetched", "done", "failed"
    script,     \* the script of the current run
    args,       \* its command line flags
    results,    \* the batch it fetched (scrape_all's results / mapped_rows)
    existing,   \* the snapshot it read (get_existing_data / read_existing_data)
    calls,      \* the Sheets API calls it issued, in order
    before,     \* the sheet as it was when the run started
    today,          \* date.today(), as a day number
    counterFile,    \* search_counter.json: [date, count], date 0 when there is no file
    ec,             \* the current run of enrich_companies.enrich
    searchesToday,  \* brave_search calls made since the last midnight
    week,           \* get_week_key(), as a week number
    weekFile,       \* apollo_enrichment_counter.json: [week, count], week 0 when there is no file
    ei,             \* the current run of enrich_company_info.enrich
    apolloThisWeek, \* companies enriched through Apollo since the week began
    net,            \* the run that is retrying a network call
    sc,             \* the run of a scrape_all over the records of a list page
    race,           \* two runs of one script at the same time
    wb,             \* the run of an enrichment script that is writing its patches
    osha,           \* the run of osha_inspection_scraper
    au,             \* austin_contracts.scrape_all going through its filters
    pg              \* a paginated fetch loop

runVars == <<pc, script, args, results, existing, calls, before>>
ecVars == <<today, counterFile, ec, searchesToday>>
eiVars == <<week, weekFile, ei, apolloThisWeek>>
coreVars == <<sheet, runVars, ecVars, eiVars>>
fetchVars == <<net, sc>>
lateVars == <<osha, au, pg>>
moreVars == <<fetchVars, race, wb, lateVars>>
vars == <<coreVars, moreVars>>

-----------------------------------------------------------------------------
(* Bounds of the model *)

\* longest sheet (header included) a run may produce
MaxRows == 4
\* longest batch one fetch returns
MaxBatch == 2

-----------------------------------------------------------------------------
(* Strings: str.strip(), str.lower(), str.upper(), str.title() on the      *)
(* strings of the model                                                    *)

Strip(s) ==
    CASE s = "ACME " -> "ACME"
      [] s = "acme " -> "acme"
      [] s = " n/a" -> "n/a"
      [] OTHER -> s

Lower(s) ==
    CASE s = "Acme" -> "acme"
      [] s = "ACME" -> "acme"
      [] s = "ACME " -> "acme "
      [] s = "C1" -> "c1"
      [] s = "Bolt" -> "bolt"
      [] s = "BOLT" -> "bolt"
      [] s = "N/A" -> "n/a"
      [] s = "None" -> "none"
      [] s = "No URL" -> "no url"
      [] OTHER -> s

Upper(s) ==
    CASE s = "Acme" -> "ACME"
      [] s = "acme" -> "ACME"
      [] s = "acme " -> "ACME "
      [] s = "c1" -> "C1"
      [] s = "Bolt" -> "BOLT"
      [] s = "bolt" -> "BOLT"
      [] OTHER -> s

\* title_case: 'FISHER SAND' -> 'Fisher Sand'
title_case(name) ==
    CASE name = "ACME" -> "Acme"
      [] name = "BOLT" -> "Bolt"
      [] OTHER -> name

-----------------------------------------------------------------------------
(* Rows and the sheet.  A row holds the columns the scripts read or write, *)
(* named by their letter; column index as in the source (0-based).         *)

Cols == {"B", "C", "D", "E", "G", "H", "I", "K", "L", "N", "O", "P"}
ColsAN == {"B", "C", "D", "E", "G", "H", "I", "K", "L", "N"}
ColsAP == Cols

Idx == [B |-> 1, C |-> 2, D |-> 3, E |-> 4, G |-> 6, H |-> 7, I |-> 8,
        K |-> 10, L |-> 11, N |-> 13, O |-> 14, P |-> 15]

EmptyRow == [c \in Cols |-> ""]

IsEmptyRow(row) == \A c \in Cols : row[c] = ""

\* len(row) of a row as values().get() returns it: trailing empty cells are omitted
RowLen(row) ==
    LET filled == {Idx[c] + 1 : c \in {d \in Cols : row[d] # ""}}
    IN  IF filled = {} THEN 0 ELSE CHOOSE n \in filled : \A m \in filled : m <= n

\* row[i] if len(row) > i else ""
Cell(row, c) == IF RowLen(row) > Idx[c] THEN row[c] ELSE ""

\* a sheet never ends with empty rows
RECURSIVE TrimRows(_)
TrimRows(rows) ==
    IF rows = <<>> THEN <<>>
    ELSE IF IsEmptyRow(rows[Len(rows)]) THEN TrimRows(SubSeq(rows, 1, Len(rows) - 1))
    ELSE rows

\* spreadsheets().values().get(range=cols): the rows restricted to the range
ReadRange(sh, cols) ==
    TrimRows([i \in 1..Len(sh) |-> [c \in Cols |-> IF c \in cols THEN sh[i][c] ELSE ""]])

\* spreadsheets().values().update(range=A<start>, values=rows): the rows carry
\* columns A..N, cells outside them keep their value
UpdateRows(sh, start, rows) ==
    LET last == IF start + Len(rows) - 1 > Len(sh) THEN start + Len(rows) - 1 ELSE Len(sh)
        old(i) == IF i <= Len(sh) THEN sh[i] ELSE EmptyRow
    IN  TrimRows([i \in 1..last |->
            IF i >= start /\ i < start + Len(rows)
            THEN [c \in Cols |-> IF c \in ColsAN THEN rows[i - start + 1][c] ELSE old(i)[c]]
            ELSE old(i)])

\* spreadsheets().values().clear(range): the cells of the range become empty
ClearRange(sh, cols, lastRow) ==
    TrimRows([i \in 1..Len(sh) |->
        IF i <= lastRow THEN [c \in Cols |-> IF c \in cols THEN "" ELSE sh[i][c]]
        ELSE sh[i]])

SHEET_HEADERS ==
    [B |-> "Company Name", C |-> "Contact Name", D |-> "Phone", E |-> "Email",
     G |-> "Website", H |-> "Contract Name", I |-> "Award Amount",
     K |-> "Begin Date", L |-> "Award Link", N |-> "Commodity Type",
     O |-> "", P |-> ""]

\* last row of the range A1:Z1000 the replace mode clears
CLEAR_LAST_ROW == 1000

ApiCall(op, at, n) == [op |-> op, at |-> at, n |-> n]

-----------------------------------------------------------------------------
(* The scrapers' results and the writers (sf_contracts, txdot_contracts,   *)
(* tn_tdot_contracts, austin_contracts)                                    *)

Companies == {"", "Acme", "Bolt"}

\* what scrape_all returns: one dict per contract
ScrapeResults ==
    {[company_name |-> c, contract_name |-> "c1", award_amount |-> "1500000",
      begin_date |-> "2026-01-05", award_link |-> "https://data.sfgov.org",
      commodity_type |-> "Construction"] : c \in Companies}

SeqsUpTo(S, n) == UNION {[1..k -> S] : k \in 0..n}

\* [r.get(f, "") for f in SHEET_FIELDS]
RowOfResult(r) ==
    [B |-> r.company_name, C |-> "", D |-> "", E |-> "", G |-> "",
     H |-> r.contract_name, I |-> r.award_amount, K |-> r.begin_date,
     L |-> r.award_link, N |-> r.commodity_type, O |-> "", P |-> ""]

RowsOfResults(res) == [i \in 1..Len(res) |-> RowOfResult(res[i])]

\* get_existing_data: the rows of A:N, or [] when the read raises
get_existing_data(sh, readOk) == IF readOk THEN ReadRange(sh, ColsAN) ELSE <<>>

\* the fingerprint of a row, were its cells compared as they are
RowFingerprintExact(row) == <<row["B"], row["H"]>>

\* (row[1].strip().lower(), row[7].strip().lower())
RowFingerprint(row) == <<Lower(Strip(row["B"])), Lower(Strip(row["H"]))>>

ResultFingerprint(r) == <<Lower(Strip(r.company_name)), Lower(Strip(r.contract_name))>>

\* existing_fps: the fingerprints of the data rows that have more than 7 cells
existing_fps(ex) ==
    {RowFingerprint(ex[i]) : i \in {j \in 2..Len(ex) : RowLen(ex[j]) > 7}}

\* new_results, were it to put the newest result first
new_results_reversed(res, fps) ==
    LET IsNew(r) == ResultFingerprint(r) \notin fps
        kept == SelectSeq(res, IsNew)
    IN  [i \in 1..Len(kept) |-> kept[Len(kept) + 1 - i]]

\* new_results: the results whose fingerprint is not in existing_fps
new_results(res, fps) ==
    LET IsNew(r) == ResultFingerprint(r) \notin fps
    IN  SelectSeq(res, IsNew)

\* the rows an append-mode run writes below the snapshot
DedupAppendRows(res, ex) == RowsOfResults(new_results(res, existing_fps(ex)))

\* txdot_contracts builds the rows from all results
PlainAppendRows(res, ex) == RowsOfResults(res)

\* the append branch: header first when the snapshot is empty, then the rows
\* at start_row
AppendWrite(sh, ex, rows) ==
    LET start_row == IF ex = <<>> THEN 2 ELSE Len(ex) + 1
        sh1 == IF ex = <<>> THEN UpdateRows(sh, 1, <<SHEET_HEADERS>>) ELSE sh
    IN  IF rows # <<>> THEN UpdateRows(sh1, start_row, rows) ELSE sh1

\* the calls of the append branch; readOk: whether values().get() returned
AppendCalls(ex, rows, readOk) ==
    LET start_row == IF ex = <<>> THEN 2 ELSE Len(ex) + 1
    IN  <<ApiCall(IF readOk THEN "get" ELSE "get_failed", 0, 0)>>
        \o (IF ex = <<>> THEN <<ApiCall("update", 1, 1)>> ELSE <<>>)
        \o (IF rows # <<>> THEN <<ApiCall("update", start_row, Len(rows))>> ELSE <<>>)

\* the replace branch: clear A1:Z1000 (a failure is swallowed where the code
\* wraps it in try/except), then header and rows from A1
ReplaceWrite(sh, res, clearOk) ==
    LET sh1 == IF clearOk THEN ClearRange(sh, Cols, CLEAR_LAST_ROW) ELSE sh
    IN  UpdateRows(sh1, 1, <<SHEET_HEADERS>> \o RowsOfResults(res))

ReplaceCalls(res) ==
    <<ApiCall("clear", 1, CLEAR_LAST_ROW), ApiCall("update", 1, Len(res) + 1)>>

Scrapers == {"sf", "txdot", "tn", "austin"}

\* the flags argparse accepts: sf and txdot know --preview and --append,
\* tn knows --preview and --replace (its --append is always True), austin none
ArgsOf(s) ==
    CASE s \in {"sf", "txdot"} ->
            {[preview |-> p, append |-> a, replace |-> FALSE] : p, a \in BOOLEAN}
      [] s = "tn" ->
            {[preview |-> p, append |-> TRUE, replace |-> r] : p, r \in BOOLEAN}
      [] OTHER -> {[preview |-> FALSE, append |-> FALSE, replace |-> FALSE]}

NoArgs == [preview |-> FALSE, append |-> FALSE, replace |-> FALSE]

\* main(), were it to pass the writer's own default, append=True
AppendModeDefault(s, a) == TRUE

\* the append argument main() passes to write_to_google_sheets
AppendMode(s, a) ==
    CASE s \in {"sf", "txdot"} -> a.append
      [] s = "tn" -> ~a.replace
      [] OTHER -> FALSE

\* rows the sheet holds after a write of n results onto sh
FitsAfter(sh, n) == (IF Len(sh) = 0 THEN 1 ELSE Len(sh)) + n <= MaxRows

\* main() up to the write: parse the flags, scrape_all(), exit when nothing
\* matched, stop after the preview in preview mode
ScraperStart(s) ==
    /\ pc = "idle"
    /\ \E a \in ArgsOf(s), res \in SeqsUpTo(ScrapeResults, MaxBatch) :
        /\ FitsAfter(sheet, Len(res))
        /\ script' = s
        /\ args' = a
        /\ results' = res
        /\ pc' = IF res = <<>> \/ a.preview THEN "done" ELSE "fetched"
    /\ existing' = <<>>
    /\ calls' = <<>>
    /\ before' = sheet
    /\ UNCHANGED sheet
    /\ UNCHANGED <<ecVars, eiVars>>
    /\ UNCHANGED moreVars

\* sf_contracts / tn_tdot_contracts write_to_google_sheets(results, append=True)
DedupAppend ==
    /\ pc = "fetched"
    /\ script \in {"sf", "tn"}
    /\ AppendMode(script, args)
    /\ \E readOk \in BOOLEAN :
        LET ex == get_existing_data(sheet, readOk)
            rows == DedupAppendRows(results, ex)
        IN  /\ existing' = ex
            /\ sheet' = AppendWrite(sheet, ex, rows)
            /\ calls' = AppendCalls(ex, rows, readOk)
    /\ pc' = "done"
    /\ UNCHANGED <<script, args, results, before>>
    /\ UNCHANGED <<ecVars, eiVars>>
    /\ UNCHANGED moreVars

\* txdot_contracts write_to_google_sheets(results, append=True)
PlainAppend ==
    /\ pc = "fetched"
    /\ script = "txdot"
    /\ AppendMode(script, args)
    /\ \E readOk \in BOOLEAN :
        LET ex == get_existing_data(sheet, readOk)
            rows == PlainAppendRows(results, ex)
        IN  /\ existing' = ex
            /\ sheet' = AppendWrite(sheet, ex, rows)
            /\ calls' = AppendCalls(ex, rows, readOk)
    /\ pc' = "done"
    /\ UNCHANGED <<script, args, results, before>>
    /\ UNCHANGED <<ecVars, eiVars>>
    /\ UNCHANGED moreVars

\* write_to_google_sheets(results, append=False), and austin_contracts'
\* write_to_google_sheets(results), which always replaces
Replace ==
    /\ pc = "fetched"
    /\ script \in Scrapers
    /\ ~AppendMode(script, args)
    /\ \E clearOk \in BOOLEAN :
        /\ (script = "tn" => clearOk)
        /\ sheet' = ReplaceWrite(sheet, results, clearOk)
    /\ calls' = ReplaceCalls(results)
    /\ pc' = "done"
    /\ UNCHANGED <<script, args, results, existing, before>>
    /\ UNCHANGED <<ecVars, eiVars>>
    /\ UNCHANGED moreVars

\* the process exits; the next run starts from scratch
Finish ==
    /\ pc \in {"done", "failed"}
    /\ pc' = "idle"
    /\ script' = "none"
    /\ args' = NoArgs
    /\ results' = <<>>
    /\ existing' = <<>>
    /\ calls' = <<>>
    /\ before' = <<>>
    /\ UNCHANGED sheet
    /\ UNCHANGED <<ecVars, eiVars>>
    /\ UNCHANGED moreVars

-----------------------------------------------------------------------------
(* import_usaspending                                                      *)

MIN_AMOUNT == 250000
FILTER_YEAR == 2026

USA_LINK == "https://www.usaspending.gov/award/x"

\* what the API returns: Recipient Name (None is ""), Award Amount, Start Date
Awards ==
    {[recipient |-> c, amount |-> 300000, start |-> d] :
        c \in {"", "ACME", "BOLT"}, d \in {"2026-01-05", "2025-12-30"}}

\* start.startswith(str(FILTER_YEAR))
is_2026_start(award) == award.start = "2026-01-05"

\* f"${amount:,.2f}"
FormatAmount(amount) ==
    CASE amount = 300000 -> "$300,000.00"
      [] amount = 100000 -> "$100,000.00"
      [] OTHER -> ""

\* parse_amount: float(val.replace("$", "").replace(",", "")), 0 when empty
\* or not a number
parse_amount(val) ==
    CASE val = "$300,000.00" -> 300000
      [] val = "$100,000.00" -> 100000
      [] val = "1500000" -> 1500000
      [] OTHER -> 0

\* "usaspending.gov" in link
IsUsaSpendingLink(link) == link = USA_LINK

\* map_to_row
map_to_row(award) ==
    [B |-> title_case(award.recipient), C |-> "", D |-> "", E |-> "", G |-> "",
     H |-> "W912", I |-> FormatAmount(award.amount), K |-> award.start,
     L |-> USA_LINK, N |-> "Electrical (NAICS 238210)", O |-> "", P |-> ""]

\* read_existing_data: the rows of A:N
read_existing_data(sh) == ReadRange(sh, ColsAN)

\* the key of a snapshot row: (company.strip().upper(), date.strip(), amount.strip())
DedupKey(row) ==
    <<Upper(Strip(Cell(row, "B"))), Strip(Cell(row, "K")), Strip(Cell(row, "I"))>>

\* build_dedup_set: the keys of the data rows that have a company
build_dedup_set(existing_rows) ==
    {DedupKey(existing_rows[i]) :
        i \in {j \in 2..Len(existing_rows) : Strip(Cell(existing_rows[j], "B")) # ""}}

\* main, step 4: the mapped rows whose key is not in the dedup set
new_rows(mapped_rows, dedup_set) ==
    LET IsNew(row) ==
            <<Upper(Strip(row["B"])), Strip(row["K"]), Strip(row["I"])>> \notin dedup_set
    IN  SelectSeq(mapped_rows, IsNew)

\* remove_under_threshold: the rows it keeps
rows_to_keep(ex) ==
    LET Keep(row) ==
            ~(IsUsaSpendingLink(Strip(Cell(row, "L")))
              /\ parse_amount(Strip(Cell(row, "I"))) < MIN_AMOUNT)
    IN  <<ex[1]>> \o SelectSeq(SubSeq(ex, 2, Len(ex)), Keep)

\* remove_under_threshold: nothing below two rows or when nothing is removed,
\* else clear A:N and write the kept rows from A1
remove_under_threshold(sh) ==
    LET ex == read_existing_data(sh)
    IN  IF Len(ex) < 2 THEN sh
        ELSE IF Len(rows_to_keep(ex)) = Len(ex) THEN sh
        ELSE UpdateRows(ClearRange(sh, ColsAN, Len(sh)), 1, rows_to_keep(ex))

RemoveCalls(sh) ==
    LET ex == read_existing_data(sh)
    IN  IF Len(ex) < 2 \/ Len(rows_to_keep(ex)) = Len(ex) THEN <<ApiCall("get", 0, 0)>>
        ELSE <<ApiCall("get", 0, 0), ApiCall("clear", 1, Len(sh)),
               ApiCall("update", 1, Len(rows_to_keep(ex)))>>

\* main, step 0: remove_under_threshold(service)
UsaRemove ==
    /\ pc = "idle"
    /\ script' = "usa"
    /\ args' = NoArgs
    /\ before' = sheet
    /\ sheet' = remove_under_threshold(sheet)
    /\ calls' = RemoveCalls(sheet)
    /\ pc' = "cleaned"
    /\ UNCHANGED <<results, existing>>
    /\ UNCHANGED <<ecVars, eiVars>>
    /\ UNCHANGED moreVars

\* main, step 0, when read_existing_data raises: nothing catches the
\* exception and the process ends with a traceback
UsaRemoveReadFails ==
    /\ pc = "idle"
    /\ script' = "usa"
    /\ args' = NoArgs
    /\ before' = sheet
    /\ calls' = <<ApiCall("get_failed", 0, 0)>>
    /\ pc' = "failed"
    /\ UNCHANGED <<sheet, results, existing>>
    /\ UNCHANGED <<ecVars, eiVars>>
    /\ UNCHANGED moreVars

\* main, steps 1 to 3: fetch_all_awards, the Start Date filter, map_to_row;
\* return when no award is left
UsaFetch ==
    /\ pc = "cleaned"
    /\ \E awards \in SeqsUpTo(Awards, MaxBatch) :
        LET kept == SelectSeq(awards, is_2026_start)
        IN  /\ Len(sheet) + Len(kept) <= MaxRows
            /\ results' = [i \in 1..Len(kept) |-> map_to_row(kept[i])]
            /\ pc' = IF kept = <<>> THEN "done" ELSE "fetched"
    /\ UNCHANGED <<sheet, script, args, existing, calls, before>>
    /\ UNCHANGED <<ecVars, eiVars>>
    /\ UNCHANGED moreVars

\* main, steps 4 and 5: deduplicate against the sheet and append
UsaAppend ==
    /\ pc = "fetched"
    /\ script = "usa"
    /\ LET ex == read_existing_data(sheet)
           rows == new_rows(results, build_dedup_set(ex))
       IN  /\ existing' = ex
           /\ sheet' = IF rows = <<>> THEN sheet ELSE UpdateRows(sheet, Len(ex) + 1, rows)
           /\ calls' = calls \o <<ApiCall("get", 0, 0)>>
                  \o (IF rows = <<>> THEN <<>>
                      ELSE <<ApiCall("update", Len(ex) + 1, Len(rows))>>)
    /\ pc' = "done"
    /\ UNCHANGED <<script, args, results, before>>
    /\ UNCHANGED <<ecVars, eiVars>>
    /\ UNCHANGED moreVars

\* main, step 4, when read_existing_data raises: the process ends with a
\* traceback before anything is appended
UsaAppendReadFails ==
    /\ pc = "fetched"
    /\ script = "usa"
    /\ calls' = calls \o <<ApiCall("get_failed", 0, 0)>>
    /\ pc' = "failed"
    /\ UNCHANGED <<sheet, script, args, results, existing, before>>
    /\ UNCHANGED <<ecVars, eiVars>>
    /\ UNCHANGED moreVars

-----------------------------------------------------------------------------
(* enrich_companies: fills the Website column (G) from the enrichment tab  *)
(* and from Brave Search, under a daily search budget kept in a file       *)

SEARCH_DAILY_LIMIT == 50

URL_ACME == "https://acme.com"
URL_ACME_ABOUT == "https://acme.com/about"
URL_YELP == "https://www.yelp.com/biz/acme"
URL_SPAM == "https://spam.com"

\* urlparse(url if "://" in url else "https://" + url).netloc.lower(),
\* without a leading "www."
extract_domain(url) ==
    CASE url = URL_ACME -> "acme.com"
      [] url = URL_ACME_ABOUT -> "acme.com"
      [] url = URL_YELP -> "yelp.com"
      [] url = "https://www.yelp.com" -> "yelp.com"
      [] url = URL_SPAM -> "spam.com"
      [] url \in {"N/A", "n/a"} -> "n"
      [] url = "none" -> "none"
      [] url \in {"No URL", "no url"} -> "no url"
      [] OTHER -> ""

\* scheme://netloc of a search result
clean_url(url) ==
    CASE url = URL_ACME_ABOUT -> URL_ACME
      [] url = URL_YELP -> "https://www.yelp.com"
      [] OTHER -> url

JUNK_DOMAINS == {"yelp.com", "google.com", "sam.gov"}

JUNK_TLDS == {".de", ".ru", ".cn"}

\* domain.endswith(tld); no domain of the model ends with a junk TLD
EndsWith(domain, tld) == FALSE

\* the rules read from the Blacklist_Rules tab
exact_domains == {"spam.com"}

contains_patterns == {"casino"}

\* pattern in domain; no domain of the model contains a pattern
Contains(domain, pattern) == FALSE

is_blacklisted(url) ==
    LET domain == extract_domain(url) IN
    IF domain = "" THEN FALSE
    ELSE \/ domain \in JUNK_DOMAINS
         \/ \E tld \in JUNK_TLDS : EndsWith(domain, tld)
         \/ domain \in exact_domains
         \/ \E pattern \in contains_patterns : Contains(domain, pattern)

\* upper case, legal suffixes and punctuation removed
normalize_company_name(name) ==
    CASE name \in {"Acme", "Acme Inc", "ACME"} -> "ACME"
      [] name \in {"Bolt", "BOLT"} -> "BOLT"
      [] OTHER -> ""

\* the Companies_Enrichment tab, one of a few contents
EnrichmentRow(name, website) == [name |-> name, website |-> website]

EnrichmentTabs ==
    {<<>>,
     <<EnrichmentRow("Acme Inc", URL_ACME)>>,
     <<EnrichmentRow("Acme Inc", "No URL")>>,
     <<EnrichmentRow("Acme Inc", URL_SPAM)>>,
     <<EnrichmentRow("Acme Inc", URL_YELP), EnrichmentRow("Bolt", URL_ACME)>>}

\* the lookup after the first n rows of the tab
RECURSIVE LookupAfter(_, _)
LookupAfter(rows, n) ==
    IF n = 0 THEN <<>>
    ELSE LET prev == LookupAfter(rows, n - 1)
             name == Strip(rows[n].name)
             website == Strip(rows[n].website)
             norm == normalize_company_name(name)
         IN IF /\ name # ""
               /\ website # ""
               /\ Lower(website) \notin {"", "no url", "n/a", "none"}
               /\ extract_domain(website) \notin JUNK_DOMAINS
               /\ norm # ""
            THEN (norm :> website) @@ prev
            ELSE prev

read_enrichment_data(rows) == LookupAfter(rows, Len(rows))

read_scraper_data(sh) == ReadRange(sh, ColsAN)

NoFile == [date |-> 0, count |-> 0]

load_search_counter(file, day) ==
    IF file = NoFile \/ file.date # day
    THEN [date |-> day, count |-> 0]
    ELSE file

\* what brave_search may return: nothing, one good result, a junk result
\* followed by a good one, only a junk result
SearchResults ==
    {<<>>, <<URL_ACME_ABOUT>>, <<URL_YELP, URL_ACME_ABOUT>>, <<URL_YELP>>}

\* the first result with a URL, cleaned, whatever its domain
FirstWithUrl(urls) ==
    LET withUrl == SelectSeq(urls, LAMBDA u : u # "")
    IN  IF withUrl = <<>> THEN "" ELSE clean_url(Head(withUrl))

\* the first result that is not blacklisted, cleaned; "" when there is none
RECURSIVE FirstAccepted(_)
FirstAccepted(urls) ==
    IF urls = <<>> THEN ""
    ELSE IF Head(urls) = "" \/ is_blacklisted(Head(urls))
         THEN FirstAccepted(Tail(urls))
         ELSE clean_url(Head(urls))

\* the website returned for what brave_search returned, once the budget let
\* the search happen
search_company_website(found) == FirstAccepted(found)

\* a variant of the test that takes every non-empty value for a website
HasWebsiteAnyValue(current_website) == current_website # ""

\* the test of line 443 on the current website
HasWebsite(current_website) ==
    current_website # "" /\ Lower(current_website) \notin {"", "n/a", "none"}

EcIdle ==
    [pc |-> "idle", key |-> FALSE, lookup |-> <<>>, rows |-> <<>>, i |-> 0,
     updates |-> <<>>, stats |-> <<>>, counter |-> NoFile]

\* enrich(), up to the loop: the sheet is read, the lookup built, the counter
\* loaded.  Keys: whether BRAVE_API_KEY may be set; Tabs: the enrichment tabs
EcStart(Keys, Tabs) ==
    /\ pc = "idle" /\ ec.pc = "idle" /\ ei.pc = "idle"
    /\ \E key \in Keys, tab \in Tabs :
        LET scraper_rows == read_scraper_data(sheet) IN
        ec' = IF Len(scraper_rows) < 2
              THEN [EcIdle EXCEPT !.pc = "done"]
              ELSE [pc |-> "rows", key |-> key,
                    lookup |-> read_enrichment_data(tab),
                    rows |-> Tail(scraper_rows), i |-> 1,
                    updates |-> <<>>, stats |-> <<>>,
                    counter |-> load_search_counter(counterFile, today)]
    /\ UNCHANGED <<sheet, runVars, today, counterFile, searchesToday, eiVars>>
    /\ UNCHANGED moreVars

\* one iteration of the loop over data_rows; Found: what brave_search may
\* return.  stats records the category the row was counted in.
EcRow(Found) ==
    /\ ec.pc = "rows"
    /\ ec.i <= Len(ec.rows)
    /\ \E found \in Found :
        LET i == ec.i
            row == ec.rows[i]
            company == Strip(Cell(row, "B"))
            stored == Strip(Cell(row, "G"))
            junk == stored # "" /\ is_blacklisted(stored)
            cleared == IF junk THEN (i :> "") @@ ec.updates ELSE ec.updates
            current_website == IF junk THEN "" ELSE stored
            norm_name == normalize_company_name(company)
            inLookup == /\ norm_name \in DOMAIN ec.lookup
                        /\ ~is_blacklisted(ec.lookup[norm_name])
            searching == ec.key /\ ec.counter.count < SEARCH_DAILY_LIMIT
            website == search_company_website(found)
            counted == [ec.counter EXCEPT !.count = @ + 1]
            step(upd, stat) ==
                [ec EXCEPT !.i = i + 1, !.updates = upd,
                           !.stats = (i :> stat) @@ ec.stats]
        IN
        IF company = "" THEN
            /\ ec' = step(ec.updates, "no_company")
            /\ UNCHANGED <<counterFile, searchesToday>>
        ELSE IF HasWebsite(current_website) THEN
            /\ ec' = step(cleared, "already_has")
            /\ UNCHANGED <<counterFile, searchesToday>>
        ELSE IF inLookup THEN
            /\ ec' = step((i :> ec.lookup[norm_name]) @@ cleared, "matched")
            /\ UNCHANGED <<counterFile, searchesToday>>
        ELSE IF searching THEN
            /\ ec' = [step(IF website # "" THEN (i :> website) @@ cleared
                           ELSE cleared,
                           IF website # "" THEN "brave_found" ELSE "no_match")
                      EXCEPT !.counter = counted]
            /\ counterFile' = counted
            /\ searchesToday' = searchesToday + 1
        ELSE
            /\ ec' = step(cleared,
                          IF ec.key THEN "limit_skipped" ELSE "no_match")
            /\ UNCHANGED <<counterFile, searchesToday>>
    /\ UNCHANGED <<sheet, runVars, today, eiVars>>
    /\ UNCHANGED moreVars

\* values.batchUpdate of the cells G{row_idx + 2}
RECURSIVE WriteWebsites(_, _, _)
WriteWebsites(sh, updates, todo) ==
    IF todo = {} THEN sh
    ELSE LET i == CHOOSE x \in todo : TRUE
             r == i + 1
             grown == IF Len(sh) >= r THEN sh
                      ELSE sh \o [k \in 1..(r - Len(sh)) |-> EmptyRow]
         IN WriteWebsites([grown EXCEPT ![r].G = updates[i]],
                          updates, todo \ {i})

\* enrich(), after the loop: the updates are written back
EcWrite ==
    /\ ec.pc = "rows"
    /\ ec.i > Len(ec.rows)
    /\ sheet' = WriteWebsites(sheet, ec.updates, DOMAIN ec.updates)
    /\ ec' = [ec EXCEPT !.pc = "done"]
    /\ UNCHANGED <<runVars, today, counterFile, searchesToday, eiVars>>
    /\ UNCHANGED moreVars

EcFinish ==
    /\ ec.pc = "done"
    /\ ec' = EcIdle
    /\ UNCHANGED <<sheet, runVars, today, counterFile, searchesToday, eiVars>>
    /\ UNCHANGED moreVars

\* midnight passes; a run of enrich_companies may be in progress
MaxDay == 2

DayTick ==
    /\ today < MaxDay
    /\ today' = today + 1
    /\ searchesToday' = 0
    /\ UNCHANGED <<sheet, runVars, counterFile, ec, eiVars>>
    /\ UNCHANGED moreVars

-----------------------------------------------------------------------------
(* enrich_company_info: fills Website (G), Company Info (O), Contact (C),  *)
(* Phone (D), Email (E) and Title (P) from Apollo, under a weekly budget   *)
(* kept in a file                                                          *)

WEEKLY_LIMIT == 50

NoWeekFile == [week |-> 0, count |-> 0]

load_counter(file, wk) ==
    IF file # NoWeekFile /\ file.week = wk
    THEN file
    ELSE [week |-> wk, count |-> 0]

save_counter(count, wk) == [week |-> wk, count |-> count]

read_sheet_data(sh) == ReadRange(sh, ColsAP)

\* the headers of columns O and P are added when they are missing
EnsureHeaders(sh) ==
    IF read_sheet_data(sh) = <<>> THEN sh
    ELSE [sh EXCEPT
            ![1].O = IF Strip(@) = "" THEN "Company Info" ELSE @,
            ![1].P = IF Strip(@) = "" THEN "Title" ELSE @]

\* the test of line 373 on the stored website
has_website(website) ==
    website # "" /\ Lower(website) \notin {"", "n/a", "none"}

\* the companies of rows 2..n that need enrichment, in sheet order
RECURSIVE NeedAfter(_, _, _)
NeedAfter(rows, n, first_run) ==
    IF n < 2 THEN <<>>
    ELSE LET prev == NeedAfter(rows, n - 1, first_run)
             row == rows[n]
             company == Strip(Cell(row, "B"))
             website == Strip(Cell(row, "G"))
             hw == has_website(website)
             hc == Strip(Cell(row, "C")) # ""
             hi == Strip(Cell(row, "O")) # ""
             complete == IF first_run THEN hw /\ hc /\ hi ELSE hi \/ hc
         IN IF company = "" \/ complete THEN prev
            ELSE Append(prev,
                    [row |-> n, company |-> company,
                     website |-> IF hw THEN website ELSE "",
                     has_website |-> hw, has_contact |-> hc,
                     has_info |-> hi])

need_enrichment(rows, first_run) == NeedAfter(rows, Len(rows), first_run)

\* need_enrichment[:remaining]
Truncate(need, remaining) ==
    IF Len(need) > remaining THEN SubSeq(need, 1, remaining) ELSE need

\* What Apollo may answer for one company: the person that people search and
\* match give (or none), and the organisation the organisation endpoints
\* give (or none).  format_website and format_info are applied already.
NoOrg == [website_url |-> "", info |-> "", phone |-> ""]

ApolloOrg ==
    [website_url |-> URL_ACME, info |-> "Construction | 120 employees",
     phone |-> "5125550199"]

NoPerson ==
    [name |-> "", title |-> "", email |-> "", phone |-> "",
     organization |-> NoOrg]

PersonFull ==
    [name |-> "Pat Lee", title |-> "Safety Manager",
     email |-> "pat@acme.com", phone |-> "5125550100",
     organization |-> ApolloOrg]

PersonBare ==
    [name |-> "Pat Lee", title |-> "", email |-> "", phone |-> "",
     organization |-> NoOrg]

ApolloReplies ==
    [person : {NoPerson, PersonFull, PersonBare}, org : {NoOrg, ApolloOrg}]

CellUpdate(row, col, value) == [row |-> row, col |-> col, value |-> value]

\* one (range, value) pair: kept when the value is not empty
Opt(cond, row, col, value) ==
    IF cond /\ value # "" THEN <<CellUpdate(row, col, value)>> ELSE <<>>

\* the row_updates built for one company from Apollo's answer
row_updates(item, reply) ==
    LET person_data == IF item.has_contact THEN NoPerson ELSE reply.person
        fromPerson == person_data.organization
        org == IF fromPerson = NoOrg /\ ~item.has_info
               THEN reply.org ELSE fromPerson
        hasOrg == org # NoOrg
        hasPerson == ~item.has_contact /\ person_data # NoPerson
        phone == IF person_data.phone # "" THEN person_data.phone
                 ELSE IF hasOrg THEN org.phone ELSE ""
        r == item.row
    IN Opt(~item.has_website /\ hasOrg, r, "G", org.website_url)
       \o Opt(~item.has_info /\ hasOrg, r, "O", org.info)
       \o Opt(hasPerson, r, "C", person_data.name)
       \o Opt(hasPerson, r, "P", person_data.title)
       \o Opt(hasPerson, r, "E", person_data.email)
       \o Opt(hasPerson, r, "D", phone)

\* all_updates after the first n companies
RECURSIVE UpdatesAfter(_, _, _)
UpdatesAfter(need, replies, n) ==
    IF n = 0 THEN <<>>
    ELSE UpdatesAfter(need, replies, n - 1) \o row_updates(need[n], replies[n])

SetCell(sh, u) ==
    CASE u.col = "C" -> [sh EXCEPT ![u.row].C = u.value]
      [] u.col = "D" -> [sh EXCEPT ![u.row].D = u.value]
      [] u.col = "E" -> [sh EXCEPT ![u.row].E = u.value]
      [] u.col = "G" -> [sh EXCEPT ![u.row].G = u.value]
      [] u.col = "O" -> [sh EXCEPT ![u.row].O = u.value]
      [] u.col = "P" -> [sh EXCEPT ![u.row].P = u.value]

\* values.batchUpdate of the cells, in order
RECURSIVE write_batch(_, _)
write_batch(sh, updates) ==
    IF updates = <<>> THEN sh
    ELSE write_batch(SetCell(sh, Head(updates)), Tail(updates))

EiIdle ==
    [pc |-> "idle", first_run |-> FALSE, rows |-> <<>>, need |-> <<>>,
     updates |-> <<>>, processed |-> 0]

\* enrich(first_run), up to the loop: the weekly limit is checked, the
\* headers ensured, the sheet read, the companies to enrich listed.
\* A run starts only while the week's tally and the saved count (which first
\* runs raise without limit) are within one run of the limit.
EiStart(Modes) ==
    /\ pc = "idle" /\ ec.pc = "idle" /\ ei.pc = "idle"
    /\ apolloThisWeek <= WEEKLY_LIMIT
    /\ weekFile.count <= WEEKLY_LIMIT
    /\ \E first_run \in Modes :
        LET week_count == load_counter(weekFile, week).count
            remaining == WEEKLY_LIMIT - week_count
            withHeaders == EnsureHeaders(sheet)
            rows == read_sheet_data(withHeaders)
            listed == need_enrichment(rows, first_run)
            need == IF first_run THEN listed ELSE Truncate(listed, remaining)
        IN
        IF ~first_run /\ week_count >= WEEKLY_LIMIT THEN
            /\ ei' = [EiIdle EXCEPT !.pc = "done"]
            /\ UNCHANGED sheet
        ELSE
            /\ sheet' = withHeaders
            /\ ei' = IF Len(rows) < 2 \/ need = <<>>
                     THEN [EiIdle EXCEPT !.pc = "done", !.first_run = first_run,
                                         !.rows = rows]
                     ELSE [pc |-> "listed", first_run |-> first_run,
                           rows |-> rows, need |-> need, updates |-> <<>>,
                           processed |-> 0]
    /\ UNCHANGED <<runVars, ecVars, week, weekFile, apolloThisWeek>>
    /\ UNCHANGED moreVars

\* the loop over need_enrichment: Apollo is asked about every company and
\* the updates are collected.  (With at most MaxInfoRows companies, fewer
\* than 200 updates are collected, so no batch is written inside the loop.)
EiEnrich(Replies) ==
    /\ ei.pc = "listed"
    /\ \E replies \in [1..Len(ei.need) -> Replies] :
        ei' = [ei EXCEPT !.pc = "enriched",
                         !.updates = UpdatesAfter(ei.need, replies, Len(ei.need)),
                         !.processed = Len(ei.need)]
    /\ apolloThisWeek' =
          IF ei.first_run THEN apolloThisWeek
          ELSE apolloThisWeek + Len(ei.need)
    /\ UNCHANGED <<sheet, runVars, ecVars, week, weekFile>>
    /\ UNCHANGED moreVars

\* the final write_batch succeeds (or there is nothing to write), and the
\* counter is saved
EiWrite ==
    /\ ei.pc = "enriched"
    /\ sheet' = write_batch(sheet, ei.updates)
    /\ weekFile' =
          save_counter(load_counter(weekFile, week).count + ei.processed, week)
    /\ ei' = [ei EXCEPT !.pc = "done"]
    /\ UNCHANGED <<runVars, ecVars, week, apolloThisWeek>>
    /\ UNCHANGED moreVars

\* the final write_batch raises (the Sheets API call fails): the run ends
\* before save_counter
EiWriteFails ==
    /\ ei.pc = "enriched"
    /\ ei.updates # <<>>
    /\ ei' = [ei EXCEPT !.pc = "failed"]
    /\ UNCHANGED <<sheet, runVars, ecVars, week, weekFile, apolloThisWeek>>
    /\ UNCHANGED moreVars

EiFinish ==
    /\ ei.pc \in {"done", "failed"}
    /\ ei' = EiIdle
    /\ UNCHANGED <<sheet, runVars, ecVars, week, weekFile, apolloThisWeek>>
    /\ UNCHANGED moreVars

\* a new week begins
MaxWeek == 2

WeekTick ==
    /\ week < MaxWeek
    /\ week' = week + 1
    /\ apolloThisWeek' = 0
    /\ UNCHANGED <<sheet, runVars, ecVars, weekFile, ei>>
    /\ UNCHANGED moreVars

-----------------------------------------------------------------------------
(* Network calls with retries: import_usaspending.fetch_awards inside      *)
(* fetch_all_awards, osha_inspection_scraper.scrape_naics inside           *)
(* collect_and_process, and osha_enrich.search_people                      *)

\* for attempt in range(3)
RETRY_ATTEMPTS == 3
\* wait = 5 * (attempt + 1)
RETRY_WAIT == 5
\* time.sleep(60) after an HTTP 429
RATE_LIMIT_WAIT == 60

\* calls (pages, NAICS codes) one run makes
MaxPages == 2
\* attempts of one call the model follows
MaxAttempts == 5

\* what one attempt meets: an answer, an error (exception, HTTP status other
\* than 200 and 429), an HTTP 429
Responses == {"ok", "error", "429"}

Fetchers == {"fetch_awards", "scrape_naics", "search_people"}

\* fn: the function retrying; call: which call of the run; log: what the
\* attempts of this call met; waits: the sleeps between them; gaveUp: a call
\* of the run ended without an answer; status: "idle", "trying", "exited";
\* exit: the exit code of the process
NetIdle ==
    [fn |-> "none", call |-> 0, log |-> <<>>, waits |-> <<>>,
     gaveUp |-> FALSE, status |-> "idle", exit |-> 0]

\* the run goes on to its next call, if it has one, else ends with code 0
NextCall(n, more) ==
    IF more /\ n.call < MaxPages
    THEN [n EXCEPT !.call = @ + 1, !.log = <<>>, !.waits = <<>>]
    ELSE [n EXCEPT !.status = "exited", !.exit = 0]

\* fetch_awards, one pass of the loop: return the answer, or sleep
\* 5 * (attempt + 1) and go on, or raise on the third failure; nothing
\* catches the exception and the process ends with code 1.  An HTTP 429
\* is an exception of urlopen like any other.
fetch_awards(n, resp, hasNext) ==
    LET attempt == Len(n.log)
        logged == [n EXCEPT !.log = Append(@, resp)]
    IN  IF resp = "ok" THEN NextCall(logged, hasNext)
        ELSE IF attempt < RETRY_ATTEMPTS - 1
        THEN [logged EXCEPT !.waits = Append(@, RETRY_WAIT * (attempt + 1))]
        ELSE [logged EXCEPT !.gaveUp = TRUE, !.status = "exited", !.exit = 1]

\* scrape_naics, one pass of the retry loop: on the third failure html stays
\* None, the page loop breaks and the run goes on with the next NAICS code
scrape_naics(n, resp, hasNext) ==
    LET attempt == Len(n.log)
        logged == [n EXCEPT !.log = Append(@, resp)]
    IN  IF resp = "ok" THEN NextCall(logged, hasNext)
        ELSE IF attempt < RETRY_ATTEMPTS - 1
        THEN [logged EXCEPT !.waits = Append(@, (attempt + 1) * RETRY_WAIT)]
        ELSE NextCall([logged EXCEPT !.gaveUp = TRUE], TRUE)

\* osha_enrich.search_people: the people on 200, [] on an error, and on 429
\* a sleep of 60 s followed by the same call again
search_people(n, resp, hasNext) ==
    LET logged == [n EXCEPT !.log = Append(@, resp)]
    IN  IF resp = "ok" THEN NextCall(logged, hasNext)
        ELSE IF resp = "429"
        THEN [logged EXCEPT !.waits = Append(@, RATE_LIMIT_WAIT)]
        ELSE NextCall([logged EXCEPT !.gaveUp = TRUE], hasNext)

\* a run starts its first call
NetStart(fn) ==
    /\ net.status = "idle" /\ sc.pc = "idle"
    /\ net' = [NetIdle EXCEPT !.fn = fn, !.call = 1, !.status = "trying"]
    /\ UNCHANGED <<coreVars, sc, race, wb, lateVars>>

\* one attempt of the current call.  The attempts of one call are followed
\* up to MaxAttempts.
NetAttempt ==
    /\ net.status = "trying"
    /\ Len(net.log) < MaxAttempts
    /\ \E resp \in Responses, hasNext \in BOOLEAN :
        net' = CASE net.fn = "fetch_awards" -> fetch_awards(net, resp, hasNext)
                 [] net.fn = "scrape_naics" -> scrape_naics(net, resp, hasNext)
                 [] OTHER -> search_people(net, resp, hasNext)
    /\ UNCHANGED <<coreVars, sc, race, wb, lateVars>>

NetFinish ==
    /\ net.status = "exited"
    /\ net' = NetIdle
    /\ UNCHANGED <<coreVars, sc, race, wb, lateVars>>

-----------------------------------------------------------------------------
(* scrape_all of austin_contracts, txsmartbuy_contracts and                *)
(* pa_penndot_contracts: a list page, then one record after the other      *)

\* records on one list page
MaxItems == 2

BatchScrapers == {"austin", "txsmartbuy", "penndot"}

\* What the list page says about a record and what its pages will answer.
\* naics: a NAICS filter matches; fetch: the detail page (the PDF, for
\* penndot) answers or fails; vendor: the vendor page answers or fails;
\* start: the start (begin, letting) date is fine, too old, or missing or
\* unparsable; end: the end date qualifies or not.
ItemsOf(s) ==
    CASE s = "austin" ->
            [naics : BOOLEAN, fetch : {"ok", "fail"}, vendor : {"ok", "fail"},
             start : {"ok", "old", "bad"}, end : {"ok"}]
      [] s = "txsmartbuy" ->
            [naics : BOOLEAN, fetch : {"ok", "fail"}, vendor : {"ok"},
             start : {"ok", "old", "bad"}, end : {"ok", "old"}]
      [] OTHER ->
            [naics : {TRUE}, fetch : {"ok", "fail"}, vendor : {"ok"},
             start : {"ok", "bad"}, end : {"ok"}]

ScIdle ==
    [script |-> "none", pc |-> "idle", items |-> <<>>, i |-> 0,
     results |-> <<>>, errors |-> 0, listFailed |-> FALSE, exit |-> 0]

\* a result: the record it comes from, its vendor info and its date
Result(i, vendor_info, date) ==
    [item |-> i, vendor_info |-> vendor_info, date |-> date]

\* strftime("%Y-%m-%d") of a parsed date
FormatDate(start) == IF start = "ok" THEN "2026-01-05" ELSE "2025-06-01"

\* main() and scrape_all() up to the loop: the list page is fetched; when
\* the fetch raises nothing catches it (exit code 1); austin_contracts
\* exits with 1 on an empty list, the others return [] and main exits
\* with 0
ScStart(s) ==
    /\ sc.pc = "idle" /\ net.status = "idle"
    /\ \E listOk \in BOOLEAN, items \in SeqsUpTo(ItemsOf(s), MaxItems) :
        sc' = IF ~listOk
              THEN [ScIdle EXCEPT !.script = s, !.pc = "exited",
                                  !.listFailed = TRUE, !.exit = 1]
              ELSE IF items = <<>>
              THEN [ScIdle EXCEPT !.script = s, !.pc = "exited",
                                  !.exit = IF s = "austin" THEN 1 ELSE 0]
              ELSE [ScIdle EXCEPT !.script = s, !.pc = "loop",
                                  !.items = items, !.i = 1]
    /\ UNCHANGED <<coreVars, net, race, wb, lateVars>>

\* austin_contracts.scrape_all, one record: skipped without a NAICS match,
\* on a detail page error, on a date that is missing or too old; a vendor
\* page error leaves the vendor info empty
austin_item(s, it) ==
    IF ~it.naics THEN s
    ELSE IF it.fetch = "fail" THEN [s EXCEPT !.errors = @ + 1]
    ELSE IF it.start # "ok" THEN s
    ELSE [s EXCEPT !.results =
            Append(@, Result(s.i, IF it.vendor = "ok" THEN "info" ELSE "",
                             FormatDate(it.start)))]

\* txsmartbuy_contracts.scrape_all, one record: skipped when neither date
\* qualifies or without a NAICS match; a detail page error leaves the
\* contractor empty; start_date.strftime raises when the start date is
\* missing or unparsable (start_date is None), which nothing catches
txsmartbuy_item(s, it) ==
    IF ~(it.start = "ok" \/ it.end = "ok") THEN s
    ELSE IF ~it.naics THEN s
    ELSE LET s1 == IF it.fetch = "fail" THEN [s EXCEPT !.errors = @ + 1] ELSE s
         IN  IF it.start = "bad"
             THEN [s1 EXCEPT !.pc = "exited", !.exit = 1, !.results = <<>>]
             ELSE [s1 EXCEPT !.results =
                     Append(@, Result(s.i, IF it.fetch = "ok" THEN "info" ELSE "",
                                      FormatDate(it.start)))]

\* pa_penndot_contracts.scrape_all, one PDF: skipped on an error; the
\* award's date is empty when the letting date could not be parsed
penndot_item(s, it) ==
    IF it.fetch = "fail" THEN s
    ELSE [s EXCEPT !.results =
            Append(@, Result(s.i, "",
                             IF it.start = "ok" THEN FormatDate(it.start) ELSE ""))]

\* one pass of the loop over the records
ScItem ==
    /\ sc.pc = "loop"
    /\ sc.i <= Len(sc.items)
    /\ LET it == sc.items[sc.i]
           after == CASE sc.script = "austin" -> austin_item(sc, it)
                      [] sc.script = "txsmartbuy" -> txsmartbuy_item(sc, it)
                      [] OTHER -> penndot_item(sc, it)
       IN  sc' = IF after.pc = "exited" THEN after ELSE [after EXCEPT !.i = @ + 1]
    /\ UNCHANGED <<coreVars, net, race, wb, lateVars>>

\* scrape_all returns and main ends: sys.exit(0) without results, else the
\* results are written
ScReturn ==
    /\ sc.pc = "loop"
    /\ sc.i > Len(sc.items)
    /\ sc' = [sc EXCEPT !.pc = "exited", !.exit = 0]
    /\ UNCHANGED <<coreVars, net, race, wb, lateVars>>

ScFinish ==
    /\ sc.pc = "exited"
    /\ sc' = ScIdle
    /\ UNCHANGED <<coreVars, net, race, wb, lateVars>>

-----------------------------------------------------------------------------
(* Two runs of one script at the same time: sf_contracts in append mode,   *)
(* and import_usaspending from step 4 on.  Nothing locks the sheet: each   *)
(* run reads its snapshot, then writes, and the other run's steps may fall *)
(* in between.                                                             *)

RaceScripts == {"sf", "usa"}

RaceIdle == [script |-> "none", runs |-> <<>>, events |-> <<>>]

\* a run that has its results and has not read the sheet yet
RaceRun(res) == [pc |-> "fetched", results |-> res, existing |-> <<>>]

\* what a run of script s brings to the write: scrape_all's results, or the
\* mapped rows of the awards that start in 2026
RaceResults(s) ==
    IF s = "sf" THEN SeqsUpTo(ScrapeResults, MaxBatch) \ {<<>>}
    ELSE {[i \in 1..Len(a) |-> map_to_row(a[i])] :
            a \in SeqsUpTo({w \in Awards : is_2026_start(w)}, MaxBatch) \ {<<>>}}

\* the snapshot read
RaceSnapshot(s, sh) ==
    IF s = "sf" THEN get_existing_data(sh, TRUE) ELSE read_existing_data(sh)

\* the rows a run writes: its records whose key is not in its snapshot
RaceRows(s, res, ex) ==
    IF s = "sf" THEN DedupAppendRows(res, ex) ELSE new_rows(res, build_dedup_set(ex))

\* the write, were it values().append(): the rows go below the last row the
\* sheet has at the time of the write
RaceWriteAtEnd(sh, s, ex, rows) ==
    IF rows = <<>> THEN sh
    ELSE UpdateRows(IF sh = <<>> THEN <<SHEET_HEADERS>> ELSE sh,
                    (IF sh = <<>> THEN 1 ELSE Len(sh)) + 1, rows)

\* the write: values().update() at start_row = len(existing) + 1
RaceWriteSheet(sh, s, ex, rows) ==
    IF s = "sf" THEN AppendWrite(sh, ex, rows)
    ELSE IF rows = <<>> THEN sh ELSE UpdateRows(sh, Len(ex) + 1, rows)

\* both runs have fetched
RaceStart(s) ==
    /\ race.script = "none"
    /\ \E r1, r2 \in RaceResults(s) :
        /\ FitsAfter(sheet, IF Len(r1) > Len(r2) THEN Len(r1) ELSE Len(r2))
        /\ race' = [script |-> s, runs |-> <<RaceRun(r1), RaceRun(r2)>>,
                    events |-> <<>>]
    /\ UNCHANGED <<coreVars, fetchVars, wb, lateVars>>

\* run k reads its snapshot
RaceRead(k) ==
    /\ race.script \in RaceScripts
    /\ race.runs[k].pc = "fetched"
    /\ race' = [race EXCEPT
                  !.runs[k].existing = RaceSnapshot(race.script, sheet),
                  !.runs[k].pc = "read",
                  !.events = Append(@, [op |-> "read", run |-> k])]
    /\ UNCHANGED <<coreVars, fetchVars, wb, lateVars>>

\* run k deduplicates against its snapshot and writes
RaceWrite(k) ==
    /\ race.script \in RaceScripts
    /\ race.runs[k].pc = "read"
    /\ LET run == race.runs[k]
           rows == RaceRows(race.script, run.results, run.existing)
       IN  sheet' = RaceWriteSheet(sheet, race.script, run.existing, rows)
    /\ race' = [race EXCEPT
                  !.runs[k].pc = "done",
                  !.events = Append(@, [op |-> "write", run |-> k])]
    /\ UNCHANGED <<runVars, ecVars, eiVars, fetchVars, wb, lateVars>>

\* both processes have ended
RaceFinish ==
    /\ race.script \in RaceScripts
    /\ \A k \in 1..2 : race.runs[k].pc = "done"
    /\ race' = [race EXCEPT !.script = "over"]
    /\ UNCHANGED <<coreVars, fetchVars, wb, lateVars>>

-----------------------------------------------------------------------------
(* Runs of two different scrapers at the same time, in append mode, on the *)
(* sheet they share: sf_contracts, nj_start_contracts, alaska_dot_contracts *)

MixScripts == {"sf", "nj", "ak"}

\* a run of script s that has its results and has not read the sheet yet
MixRun(s, res) == [script |-> s, pc |-> "fetched", results |-> res, existing |-> <<>>]

\* the rows a run writes: sf_contracts and alaska_dot_contracts leave out
\* the results whose key is in the snapshot, nj_start_contracts writes all
MixRows(s, res, ex) ==
    IF s = "nj" THEN PlainAppendRows(res, ex) ELSE DedupAppendRows(res, ex)

\* both runs have fetched
MixStart(s1, s2) ==
    /\ race.script = "none"
    /\ s1 # s2
    /\ \E r1, r2 \in SeqsUpTo(ScrapeResults, MaxBatch) \ {<<>>} :
        /\ FitsAfter(sheet, Len(r1) + Len(r2))
        /\ race' = [script |-> "mixed", runs |-> <<MixRun(s1, r1), MixRun(s2, r2)>>,
                    events |-> <<>>]
    /\ UNCHANGED <<coreVars, fetchVars, wb, lateVars>>

\* run k reads its snapshot
MixRead(k) ==
    /\ race.script = "mixed"
    /\ race.runs[k].pc = "fetched"
    /\ race' = [race EXCEPT
                  !.runs[k].existing = get_existing_data(sheet, TRUE),
                  !.runs[k].pc = "read",
                  !.events = Append(@, [op |-> "read", run |-> k])]
    /\ UNCHANGED <<coreVars, fetchVars, wb, lateVars>>

\* run k writes header and rows where its snapshot says
MixWrite(k) ==
    /\ race.script = "mixed"
    /\ race.runs[k].pc = "read"
    /\ LET run == race.runs[k]
       IN  sheet' = AppendWrite(sheet, run.existing,
                                MixRows(run.script, run.results, run.existing))
    /\ race' = [race EXCEPT
                  !.runs[k].pc = "done",
                  !.events = Append(@, [op |-> "write", run |-> k])]
    /\ UNCHANGED <<runVars, ecVars, eiVars, fetchVars, wb, lateVars>>

\* both processes have ended
MixFinish ==
    /\ race.script = "mixed"
    /\ \A k \in 1..2 : race.runs[k].pc = "done"
    /\ race' = [race EXCEPT !.script = "over"]
    /\ UNCHANGED <<coreVars, fetchVars, wb, lateVars>>

-----------------------------------------------------------------------------
(* Append runs on sheets whose rows were edited by hand: company names in  *)
(* another letter case or with spaces around them, rows cut short          *)

\* data rows of the sheets these runs start from
MaxKeyRows == 2

\* what scrape_all returns when the source spells names and titles freely
VariantResults ==
    {[company_name |-> c, contract_name |-> t, award_amount |-> "1500000",
      begin_date |-> "2026-01-05", award_link |-> "https://data.sfgov.org",
      commodity_type |-> "Construction"] :
        c \in {"Acme", "ACME ", "acme", "Bolt"}, t \in {"c1", "C1", ""}}

\* a row a scraper wrote, its company respelled
ScraperRow(c, t) ==
    RowOfResult([company_name |-> c, contract_name |-> t, award_amount |-> "1500000",
                 begin_date |-> "2026-01-05", award_link |-> "https://data.sfgov.org",
                 commodity_type |-> "Construction"])

\* a row import_usaspending wrote, its company respelled
ImportedRow(c) == [map_to_row([recipient |-> "ACME", amount |-> 300000,
                               start |-> "2026-01-05"]) EXCEPT !.B = c]

\* a row cut after its company cell
ShortRow(c) == [EmptyRow EXCEPT !.B = c]

KeyRows ==
    {ScraperRow("Acme", "c1"), ScraperRow("ACME ", "c1"),
     ImportedRow("acme "), ShortRow("Acme")}

KeySheets ==
    {<<SHEET_HEADERS>> \o rows : rows \in SeqsUpTo(KeyRows, MaxKeyRows)}

\* main() of sf_contracts (--append) and tn_tdot_contracts up to the write
VariantStart(s) ==
    /\ pc = "idle"
    /\ \E res \in SeqsUpTo(VariantResults, MaxBatch) :
        /\ results' = res
        /\ pc' = IF res = <<>> THEN "done" ELSE "fetched"
    /\ script' = s
    /\ args' = [preview |-> FALSE, append |-> TRUE, replace |-> FALSE]
    /\ existing' = <<>>
    /\ calls' = <<>>
    /\ before' = sheet
    /\ UNCHANGED sheet
    /\ UNCHANGED <<ecVars, eiVars>>
    /\ UNCHANGED moreVars

-----------------------------------------------------------------------------
(* The cell patches of the enrichment scripts on their way to the sheet:   *)
(* enrich_company_info collects them company after company and flushes     *)
(* them through write_batch, enrich_companies writes its updates at the    *)
(* end.  A patch is named by its rank among the patches of the run.        *)

\* range(0, len(batch_data), 100)
CHUNK_SIZE == 100
\* if len(all_updates) >= 200
FLUSH_AT == 200

\* companies one run of enrich_company_info goes through
MaxCompanies == 40
\* website updates one run of enrich_companies collects
MaxUpdates == 205

\* cell updates one company may receive
RowUpdateCounts == {0, 3, 6}

Patches(from, n) == [k \in 1..n |-> from + k]

WbIdle ==
    [script |-> "none", pc |-> "idle", companies |-> 0, produced |-> 0,
     all_updates |-> <<>>, sent |-> <<>>]

\* the chunks, were everything sent in one call
one_chunk(batch_data) == IF batch_data = <<>> THEN <<>> ELSE <<batch_data>>

\* batch_data[start:start + 100] for start in range(0, len(batch_data), 100)
RECURSIVE chunks_from(_, _)
chunks_from(batch_data, start) ==
    IF start >= Len(batch_data) THEN <<>>
    ELSE LET stop == IF start + CHUNK_SIZE < Len(batch_data)
                     THEN start + CHUNK_SIZE ELSE Len(batch_data)
         IN  <<SubSeq(batch_data, start + 1, stop)>>
             \o chunks_from(batch_data, start + CHUNK_SIZE)

\* the batchUpdate calls of one write_batch, in order
batch_chunks(batch_data) == chunks_from(batch_data, 0)

\* enrich() of enrich_company_info reaches its loop, or enrich() of
\* enrich_companies has collected its updates
WbStart ==
    /\ wb.pc = "idle"
    /\ \/ wb' = [WbIdle EXCEPT !.script = "info", !.pc = "loop"]
       \/ \E n \in 0..MaxUpdates :
            wb' = [WbIdle EXCEPT !.script = "companies", !.pc = "collected",
                                 !.produced = n, !.all_updates = Patches(0, n)]
    /\ UNCHANGED <<coreVars, fetchVars, race, lateVars>>

\* one company of the loop of enrich_company_info: its updates join
\* all_updates, which is written and emptied once it holds 200 or more
WbCompany ==
    /\ wb.pc = "loop"
    /\ wb.companies < MaxCompanies
    /\ \E n \in RowUpdateCounts :
        LET all_updates == wb.all_updates \o Patches(wb.produced, n)
            flush == Len(all_updates) >= FLUSH_AT
        IN  wb' = [wb EXCEPT
                    !.companies = @ + 1,
                    !.produced = @ + n,
                    !.sent = IF flush THEN @ \o batch_chunks(all_updates) ELSE @,
                    !.all_updates = IF flush THEN <<>> ELSE all_updates]
    /\ UNCHANGED <<coreVars, fetchVars, race, lateVars>>

\* after the loop: what is left is written; enrich_companies returns before
\* the write when it has no update
WbFinal ==
    /\ wb.pc \in {"loop", "collected"}
    /\ wb' = [wb EXCEPT !.pc = "done",
                        !.sent = @ \o batch_chunks(wb.all_updates),
                        !.all_updates = <<>>]
    /\ UNCHANGED <<coreVars, fetchVars, race, lateVars>>

\* after the loop, when one batchUpdate of the last write raises: the chunks
\* before it were sent, the run ends there
WbFinalFails ==
    /\ wb.pc \in {"loop", "collected"}
    /\ wb.all_updates # <<>>
    /\ \E good \in 0..(Len(batch_chunks(wb.all_updates)) - 1) :
        wb' = [wb EXCEPT !.pc = "failed",
                         !.sent = @ \o SubSeq(batch_chunks(wb.all_updates), 1, good)]
    /\ UNCHANGED <<coreVars, fetchVars, race, lateVars>>

WbFinish ==
    /\ wb.pc \in {"done", "failed"}
    /\ wb' = WbIdle
    /\ UNCHANGED <<coreVars, fetchVars, race, lateVars>>

-----------------------------------------------------------------------------
(* osha_inspection_scraper: the inspections of 2026 and of 2025 are        *)
(* collected, each list deduplicated and sorted, and both are written as   *)
(* two sections of the OSHA sheet                                          *)

\* inspections one year's search returns
MaxInsp == 2

DATE_EARLY == "01/05"
DATE_LATE == "02/10"

\* what parse_search_results gives for a row; without detail pages the
\* penalty stays 0.0
Inspections ==
    [activity_nr : {"a1", "a2"}, violations : {0, 2, 5},
     date_opened : {DATE_EARLY, DATE_LATE}, current_penalty : {0}]

\* the place of a date_opened string among the strings of the model
DateRank(d) == IF d = DATE_LATE THEN 2 ELSE 1

\* rows = [r for r in rows if r["violations"] >= min_violations]
AtLeast(rows, min_violations) ==
    IF min_violations > 0
    THEN SelectSeq(rows, LAMBDA r : r.violations >= min_violations)
    ELSE rows

\* the first inspection of every activity_nr, in order
RECURSIVE Unique(_)
Unique(rows) ==
    IF rows = <<>> THEN <<>>
    ELSE LET prev == Unique(SubSeq(rows, 1, Len(rows) - 1))
             r == rows[Len(rows)]
         IN  IF \E k \in 1..Len(prev) : prev[k].activity_nr = r.activity_nr
             THEN prev ELSE Append(prev, r)

\* r put into rows, sorted by descending key, behind the rows whose key is
\* not smaller (sort(reverse=True) keeps equal keys in their order)
RECURSIVE InsertDesc(_, _, _)
InsertDesc(rows, r, by_date) ==
    LET key(x) == IF by_date THEN DateRank(x.date_opened) ELSE x.violations IN
    IF rows = <<>> THEN <<r>>
    ELSE IF key(Head(rows)) >= key(r)
         THEN <<Head(rows)>> \o InsertDesc(Tail(rows), r, by_date)
         ELSE <<r>> \o rows

\* unique.sort(key=..., reverse=True): by date_opened for 2026, by
\* (violations, current_penalty) for 2025
RECURSIVE SortDesc(_, _)
SortDesc(rows, by_date) ==
    IF rows = <<>> THEN <<>>
    ELSE InsertDesc(SortDesc(SubSeq(rows, 1, Len(rows) - 1), by_date),
                    rows[Len(rows)], by_date)

\* collect_and_process(year, min_violations): what the searches returned is
\* filtered, deduplicated by activity_nr and sorted
collect_and_process(fetched, min_violations) ==
    SortDesc(Unique(AtLeast(fetched, min_violations)), min_violations = 0)

OshaIdle ==
    [pc |-> "idle", preview |-> FALSE, results_2026 |-> <<>>,
     results_2025 |-> <<>>, section_2026 |-> <<>>, section_2025 |-> <<>>]

\* main(): section A, collect_and_process(year=2026, min_violations=0)
OshaCollect2026 ==
    /\ osha.pc = "idle"
    /\ \E preview \in BOOLEAN, fetched \in SeqsUpTo(Inspections, MaxInsp) :
        osha' = [OshaIdle EXCEPT !.pc = "2026", !.preview = preview,
                                 !.results_2026 = collect_and_process(fetched, 0)]
    /\ UNCHANGED <<coreVars, fetchVars, race, wb, au, pg>>

\* main(): section C, collect_and_process(year=2025, min_violations=1),
\* then write_to_google_sheets unless --preview was given
OshaCollect2025 ==
    /\ osha.pc = "2026"
    /\ \E fetched \in SeqsUpTo(Inspections, MaxInsp) :
        LET results_2025 == collect_and_process(fetched, 1) IN
        osha' = [osha EXCEPT
                   !.pc = "done",
                   !.results_2025 = results_2025,
                   !.section_2026 = IF osha.preview THEN <<>> ELSE osha.results_2026,
                   !.section_2025 = IF osha.preview THEN <<>> ELSE results_2025]
    /\ UNCHANGED <<coreVars, fetchVars, race, wb, au, pg>>

OshaFinish ==
    /\ osha.pc = "done"
    /\ osha' = OshaIdle
    /\ UNCHANGED <<coreVars, fetchVars, race, wb, au, pg>>

-----------------------------------------------------------------------------
(* austin_contracts.scrape_all: every contract of the list page goes       *)
(* through the NAICS, date, amount and expenditure filters                 *)

\* contracts on the list page
MaxContracts == 2

AUSTIN_MIN_AMOUNT == 50000
\* datetime(2025, 12, 1), dates being written yyyymmdd
AUSTIN_MIN_DATE == 20251201

\* parse_date of austin_contracts: None (0 here) for an empty or malformed
\* string
austin_parse_date(date_str) ==
    CASE date_str = "11/30/2025" -> 20251130
      [] date_str = "12/01/2025" -> 20251201
      [] date_str = "01/05/2026" -> 20260105
      [] OTHER -> 0

\* parse_amount of austin_contracts: commas removed, 0.0 for an empty or
\* malformed string
austin_parse_amount(amount_str) ==
    CASE amount_str = "49,999" -> 49999
      [] amount_str = "50,000" -> 50000
      [] amount_str = "1,200" -> 1200
      [] OTHER -> 0

\* a contract of the list page with what its detail page says.  quick: a
\* NAICS keyword is in the list description or the link text; full: one is
\* in the list description or the commodity description; fetch: the detail
\* page answers or fails
AustinContracts ==
    [contract_id : {"k1", "k2"}, quick : BOOLEAN, fetch : {"ok", "fail"},
     full : BOOLEAN, begin_date_str : {"", "11/30/2025", "12/01/2025", "01/05/2026"},
     amount_str : {"49,999", "50,000"}, amount_expended_str : {"0.00", "1,200"}]

NoContract ==
    [contract_id |-> "", quick |-> FALSE, fetch |-> "ok", full |-> FALSE,
     begin_date_str |-> "", amount_str |-> "", amount_expended_str |-> ""]

Counters ==
    [skipped_naics |-> 0, skipped_date |-> 0, skipped_amount |-> 0,
     skipped_not_expended |-> 0, errors |-> 0]

\* last: the contract the loop has just gone through; prev: the counters
\* before it; seen: the (contract_id, vendor) pairs of the results
AuIdle ==
    [pc |-> "idle", n |-> 0, results |-> <<>>, seen |-> {}, count |-> Counters,
     last |-> NoContract, prev |-> Counters]

\* the amount test, were it to let every amount through
BelowNothing(amount) == FALSE

\* amount < MIN_AMOUNT
BelowMinAmount(amount) == amount < AUSTIN_MIN_AMOUNT

\* one pass of the loop of scrape_all on contract c
austin_contract(a, c) ==
    LET begin_date == austin_parse_date(c.begin_date_str)
        amount == austin_parse_amount(c.amount_str)
        amount_expended == austin_parse_amount(c.amount_expended_str)
        dedup_key == <<c.contract_id, "Unknown">>
        skip(counter) == [a EXCEPT !.count[counter] = @ + 1]
    IN  IF ~c.quick THEN skip("skipped_naics")
        ELSE IF c.fetch = "fail" THEN skip("errors")
        ELSE IF ~c.full THEN skip("skipped_naics")
        ELSE IF begin_date = 0 \/ begin_date < AUSTIN_MIN_DATE THEN skip("skipped_date")
        ELSE IF BelowMinAmount(amount) THEN skip("skipped_amount")
        ELSE IF amount_expended <= 0 THEN skip("skipped_not_expended")
        ELSE IF dedup_key \in a.seen THEN a
        ELSE [a EXCEPT
                !.seen = @ \cup {dedup_key},
                !.results = Append(@,
                    [contract_id |-> c.contract_id, award_amount |-> amount,
                     amount_expended |-> amount_expended,
                     begin_date |-> begin_date, naics |-> c.full])]

\* scrape_all has parsed the list page
AuStart ==
    /\ au.pc = "idle"
    /\ au' = [AuIdle EXCEPT !.pc = "loop"]
    /\ UNCHANGED <<coreVars, fetchVars, race, wb, osha, pg>>

\* the loop takes the next contract of the list
AuContract ==
    /\ au.pc = "loop"
    /\ au.n < MaxContracts
    /\ \E c \in AustinContracts :
        au' = [austin_contract(au, c) EXCEPT !.n = au.n + 1, !.last = c,
                                            !.prev = au.count]
    /\ UNCHANGED <<coreVars, fetchVars, race, wb, osha, pg>>

\* the list is exhausted: scrape_all returns results
AuReturn ==
    /\ au.pc = "loop"
    /\ au' = [au EXCEPT !.pc = "returned"]
    /\ UNCHANGED <<coreVars, fetchVars, race, wb, osha, pg>>

AuFinish ==
    /\ au.pc = "returned"
    /\ au' = AuIdle
    /\ UNCHANGED <<coreVars, fetchVars, race, wb, osha, pg>>

-----------------------------------------------------------------------------
(* The page loops: fetch_all_awards of import_usaspending, scrape_naics of *)
(* osha_inspection_scraper, search_contracts of nj_start_contracts         *)

\* page numbers the model tells apart; the pages past it are folded onto
\* the last two numbers
MaxFollow == 52

\* page_num < 50 in search_contracts
NJ_MAX_PAGES == 50

PageLoops == {"fetch_all_awards", "scrape_naics", "search_contracts"}

\* what the source answers to the request of one page: ok, the request got
\* an answer (after the retries); rows, the page holds rows; more, the page
\* says another follows (hasNext, a "Next" link, an enabled next button)
PageAnswers == [ok : BOOLEAN, rows : BOOLEAN, more : BOOLEAN]

\* fn: the function looping; page: the page it is at; pages: the pages it
\* has collected; pc: "idle", "looping", "returned", "raised"
PgIdle == [fn |-> "none", pc |-> "idle", page |-> 0, pages |-> <<>>]

\* page += 1
NextPage(g) ==
    [g EXCEPT !.page = IF @ < MaxFollow THEN @ + 1 ELSE MaxFollow - 1]

\* all_results.extend(results) / all_rows.extend(rows) / rows_data.append(row)
Collect(g) ==
    [g EXCEPT !.pages = IF Len(@) < MaxFollow THEN Append(@, g.page) ELSE @]

\* fetch_all_awards, one pass of the loop: fetch_awards raises when its
\* three attempts failed; the page is added, and the loop ends when the
\* answer has no next page or no results
fetch_all_awards(g, a) ==
    IF ~a.ok THEN [g EXCEPT !.pc = "raised"]
    ELSE IF ~a.more \/ ~a.rows THEN [Collect(g) EXCEPT !.pc = "returned"]
    ELSE NextPage(Collect(g))

\* scrape_naics, one pass of the page loop: it ends when no html came, when
\* the page has no rows, or when the page has no "Next" link
scrape_pages(g, a) ==
    IF ~a.ok \/ ~a.rows THEN [g EXCEPT !.pc = "returned"]
    ELSE IF ~a.more THEN [Collect(g) EXCEPT !.pc = "returned"]
    ELSE NextPage(Collect(g))

\* search_contracts, one pass of the loop: the rows are added, and the loop
\* goes on while the next button is enabled and page_num < 50
search_contracts(g, a) ==
    IF a.more /\ g.page < NJ_MAX_PAGES THEN NextPage(Collect(g))
    ELSE [Collect(g) EXCEPT !.pc = "returned"]

\* the loop is entered: page = 1, page_offset = 0, page_num = 1
PgStart(fn) ==
    /\ pg.pc = "idle"
    /\ pg' = [PgIdle EXCEPT !.fn = fn, !.pc = "looping", !.page = 1]
    /\ UNCHANGED <<coreVars, fetchVars, race, wb, osha, au>>

\* one pass of the loop, the source answering as it likes
PgPage ==
    /\ pg.pc = "looping"
    /\ \E a \in PageAnswers :
        pg' = CASE pg.fn = "fetch_all_awards" -> fetch_all_awards(pg, a)
                [] pg.fn = "scrape_naics" -> scrape_pages(pg, a)
                [] OTHER -> search_contracts(pg, [a EXCEPT !.ok = TRUE])
    /\ UNCHANGED <<coreVars, fetchVars, race, wb, osha, au>>

\* the caller has the pages, or the process has ended on the exception
PgFinish ==
    /\ pg.pc \in {"returned", "raised"}
    /\ pg' = PgIdle
    /\ UNCHANGED <<coreVars, fetchVars, race, wb, osha, au>>

-----------------------------------------------------------------------------
(* The scrapers and the importer running one after the other on the sheet  *)

\* an old USA Spending row under the threshold, from before the filter
OldUsaRow ==
    [B |-> "Bolt", C |-> "", D |-> "", E |-> "", G |-> "", H |-> "W912",
     I |-> "$100,000.00", K |-> "2026-01-05", L |-> USA_LINK,
     N |-> "Electrical (NAICS 238210)", O |-> "", P |-> ""]

RunIdle ==
    /\ pc = "idle"
    /\ script = "none"
    /\ args = NoArgs
    /\ results = <<>>
    /\ existing = <<>>
    /\ calls = <<>>
    /\ before = <<>>

\* no run of enrich_companies; the counter file and the day's tally as given
EcInit(file, n) ==
    /\ today = 1
    /\ counterFile = file
    /\ ec = EcIdle
    /\ searchesToday = n

\* no run of enrich_company_info; the counter file and the week's tally as given
EiInit(file, n) ==
    /\ week = 1
    /\ weekFile = file
    /\ ei = EiIdle
    /\ apolloThisWeek = n

\* nothing else is running
MoreIdle ==
    /\ net = NetIdle
    /\ sc = ScIdle
    /\ race = RaceIdle
    /\ wb = WbIdle
    /\ osha = OshaIdle
    /\ au = AuIdle
    /\ pg = PgIdle

Init ==
    /\ sheet \in {<<>>, <<SHEET_HEADERS>>, <<SHEET_HEADERS, OldUsaRow>>}
    /\ RunIdle
    /\ MoreIdle
    /\ EcInit(NoFile, 0)
    /\ EiInit(NoWeekFile, 0)

Next ==
    \/ \E s \in Scrapers : ScraperStart(s)
    \/ DedupAppend
    \/ PlainAppend
    \/ Replace
    \/ UsaRemove
    \/ UsaFetch
    \/ UsaAppend
    \/ UsaRemoveReadFails
    \/ UsaAppendReadFails
    \/ Finish

Spec == Init /\ [][Next]_vars

-----------------------------------------------------------------------------
(* Properties of the writers                                               *)

\* the run passed write_to_google_sheets / the append step and has ended
WroteAsScraper == pc = "done" /\ script \in Scrapers /\ ~args.preview /\ results # <<>>

AppendRunDone == WroteAsScraper /\ AppendMode(script, args)

HasCall(op) == \E i \in 1..Len(calls) : calls[i].op = op

\* the identity keys of the data rows of the snapshot
SnapshotFingerprints == {RowFingerprint(existing[i]) : i \in 2..Len(existing)}

SnapshotDedupKeys ==
    {DedupKey(existing[i]) : i \in {j \in 2..Len(existing) : existing[j]["B"] # ""}}

\* the sheet as the range A:N shows it
SheetAN == ReadRange(sheet, ColsAN)

\* C1: every scraper de-duplicates in append mode: when the identity key of
\* every incoming record already exists in the snapshot, the run appends no
\* row and leaves the sheet as it was.
C1_AppendSkipsExisting ==
    (AppendRunDone
     /\ \A i \in 1..Len(results) : ResultFingerprint(results[i]) \in SnapshotFingerprints)
    => sheet = before

\* the incoming records an append run has to write: those whose key is absent
\* from the snapshot (txdot_contracts compares nothing: all of them)
AbsentIdx ==
    CASE script = "usa" ->
            {i \in 1..Len(results) :
                <<Upper(Strip(results[i]["B"])), results[i]["K"], results[i]["I"]>>
                    \notin SnapshotDedupKeys}
      [] script = "txdot" -> 1..Len(results)
      [] OTHER ->
            {i \in 1..Len(results) : ResultFingerprint(results[i]) \notin SnapshotFingerprints}

\* the k-th smallest element of a set of numbers
RECURSIVE Kth(_, _)
Kth(S, k) ==
    LET m == CHOOSE x \in S : \A y \in S : x <= y
    IN  IF k = 1 THEN m ELSE Kth(S \ {m}, k - 1)

IncomingRow(i) == IF script = "usa" THEN results[i] ELSE RowOfResult(results[i])

\* the first row an append run writes to
AppendStart ==
    IF script = "usa" THEN Len(existing) + 1
    ELSE IF existing = <<>> THEN 2 ELSE Len(existing) + 1

AppendEnded ==
    \/ AppendRunDone
    \/ pc = "done" /\ script = "usa" /\ results # <<>>

\* C2: an append run writes every incoming record whose identity key is
\* absent from the snapshot, below the snapshot and in the order of the
\* incoming batch.
C2_NewRecordsAppendedInOrder ==
    AppendEnded =>
        /\ Len(SheetAN) >= AppendStart + Cardinality(AbsentIdx) - 1
        /\ \A k \in 1..Cardinality(AbsentIdx) :
              SheetAN[AppendStart + k - 1] = IncomingRow(Kth(AbsentIdx, k))

\* C2 witness: on an empty sheet, two records with distinct identities were
\* appended below the header in their original order.
C2_Witness ==
    /\ AppendRunDone
    /\ script = "sf"
    /\ before = <<>>
    /\ Len(results) = 2
    /\ ResultFingerprint(results[1]) # ResultFingerprint(results[2])
    /\ sheet = <<SHEET_HEADERS, RowOfResult(results[1]), RowOfResult(results[2])>>

\* C6: a record with an empty company name is never written: after a run of
\* import_usaspending every row without a company was in the sheet before.
C6_EmptyCompanyNeverAppended ==
    (pc = "done" /\ script = "usa") =>
        \A i \in 1..Len(sheet) :
            sheet[i]["B"] = "" => (i <= Len(before) /\ before[i] = sheet[i])

\* C7 as stated: a scraper clears the sheet only when replace mode was
\* requested on the command line.
C7_ClearOnlyOnExplicitReplace ==
    (pc = "done" /\ script \in Scrapers /\ HasCall("clear")) => args.replace

\* C7 as amended: a scraper clears the sheet exactly when its writer runs in
\* replace mode, which is with --replace for tn_tdot_contracts, without
\* --append for sf_contracts and txdot_contracts, and always for
\* austin_contracts; an append-mode run clears nothing.
C7_ClearIffReplaceMode ==
    (pc = "done" /\ script \in Scrapers) =>
        (HasCall("clear") <=>
            /\ ~args.preview
            /\ results # <<>>
            /\ \/ script = "tn" /\ args.replace
               \/ script \in {"sf", "txdot"} /\ ~args.append
               \/ script = "austin")

\* C7 witness: sf_contracts, started without any flag, cleared a sheet that
\* held data rows and wrote the header and its results.
C7_Witness ==
    /\ WroteAsScraper
    /\ script = "sf"
    /\ ~args.append
    /\ Len(before) > 1
    /\ HasCall("clear")
    /\ sheet = <<SHEET_HEADERS>> \o RowsOfResults(results)

\* C8: a run of import_usaspending is append-only: every row the sheet held
\* before the run is still there, unchanged, at the same row number.
C8_ImportKeepsExistingRows ==
    (pc = "done" /\ script = "usa") =>
        \A i \in 1..Len(before) : i <= Len(sheet) /\ sheet[i] = before[i]

\* C11: when the read of the sheet snapshot fails the run does not abort:
\* it ends normally with an empty snapshot, and every incoming record is in
\* the sheet, written below the header in batch order.
C11_ReadFailureTreatedAsEmpty ==
    HasCall("get_failed") =>
        /\ pc = "done"
        /\ existing = <<>>
        /\ \A i \in 1..Len(results) :
              Len(SheetAN) >= i + 1 /\ SheetAN[i + 1] = IncomingRow(i)

-----------------------------------------------------------------------------
(* enrich_companies run after run on sheets whose Website column holds     *)
(* empty cells, placeholders, junk and real websites; the day's budget is  *)
(* nearly used                                                             *)

MaxWebRows == 2

StoredWebsites == {"", "N/A", "none", "No URL", URL_YELP, URL_ACME}

WebRow(company, website) ==
    [EmptyRow EXCEPT !.B = company, !.G = website, !.H = "c1",
                     !.I = "$1,500,000.00"]

WebRows == {WebRow("", "")} \cup {WebRow("Acme", w) : w \in StoredWebsites}

WebsiteSheets ==
    {<<SHEET_HEADERS>> \o rows : rows \in SeqsUpTo(WebRows, MaxWebRows) \ {<<>>}}

InitEnrich ==
    /\ sheet \in WebsiteSheets
    /\ RunIdle
    /\ MoreIdle
    /\ EcInit([date |-> 1, count |-> SEARCH_DAILY_LIMIT - 1],
              SEARCH_DAILY_LIMIT - 1)
    /\ EiInit(NoWeekFile, 0)

NextEnrich ==
    \/ EcStart(BOOLEAN, EnrichmentTabs)
    \/ EcRow(SearchResults)
    \/ EcWrite
    \/ EcFinish

SpecEnrich == InitEnrich /\ [][NextEnrich]_vars

-----------------------------------------------------------------------------
(* enrich_companies run after run, with the API key set, on a sheet whose  *)
(* companies have no website, from the first search of a day across        *)
(* midnight                                                                *)

InitBudget ==
    /\ sheet = <<SHEET_HEADERS, WebRow("Acme", ""), WebRow("Bolt", "")>>
    /\ RunIdle
    /\ MoreIdle
    /\ EcInit(NoFile, 0)
    /\ EiInit(NoWeekFile, 0)

NextBudget ==
    \/ EcStart({TRUE}, {<<>>})
    \/ EcRow({<<>>, <<URL_ACME_ABOUT>>})
    \/ EcWrite
    \/ EcFinish
    \/ DayTick

SpecBudget == InitBudget /\ [][NextBudget]_vars

-----------------------------------------------------------------------------
(* enrich_company_info run after run (first run or not) on sheets whose    *)
(* companies have some of their cells filled; the week's budget is nearly  *)
(* used                                                                    *)

MaxInfoRows == 2

InfoRow(company, contact, email, website, info) ==
    [EmptyRow EXCEPT !.B = company, !.C = contact, !.E = email,
                     !.G = website, !.H = "c1", !.O = info]

InfoRows ==
    {InfoRow("Acme", c, e, w, o) :
        c \in {"", "Kim Old"}, e \in {"", "old@acme.com"},
        w \in {"", "n/a", "https://old.example"}, o \in {"", "Old info"}}

\* a first company with some cells filled, then companies with none
InfoSheets ==
    {<<SHEET_HEADERS, first>> \o rest :
        first \in InfoRows,
        rest \in SeqsUpTo({InfoRow("Bolt", "", "", "", "")}, MaxInfoRows - 1)}

InitInfo ==
    /\ sheet \in InfoSheets
    /\ RunIdle
    /\ MoreIdle
    /\ EcInit(NoFile, 0)
    /\ EiInit([week |-> 1, count |-> WEEKLY_LIMIT - 1], WEEKLY_LIMIT - 1)

NextInfo ==
    \/ EiStart(BOOLEAN)
    \/ EiEnrich(ApolloReplies)
    \/ EiWrite
    \/ EiWriteFails
    \/ EiFinish

SpecInfo == InitInfo /\ [][NextInfo]_vars

-----------------------------------------------------------------------------
(* enrich_company_info run after run, never as a first run, on a sheet     *)
(* whose companies have nothing filled, from the start of a week           *)

InitWeekly ==
    /\ sheet = <<SHEET_HEADERS, InfoRow("Acme", "", "", "", ""),
                 InfoRow("Bolt", "", "", "", "")>>
    /\ RunIdle
    /\ MoreIdle
    /\ EcInit(NoFile, 0)
    /\ EiInit(NoWeekFile, 0)

NextWeekly ==
    \/ EiStart({FALSE})
    \/ EiEnrich({[person |-> PersonBare, org |-> NoOrg],
                 [person |-> NoPerson, org |-> NoOrg]})
    \/ EiWrite
    \/ EiWriteFails
    \/ EiFinish
    \/ WeekTick

SpecWeekly == InitWeekly /\ [][NextWeekly]_vars

-----------------------------------------------------------------------------
(* Properties of the enrichment scripts                                    *)

\* the stored website of data row i of the snapshot enrich_companies read
StoredWebsite(i) == Strip(Cell(ec.rows[i], "G"))

StoredCompany(i) == Strip(Cell(ec.rows[i], "B"))

\* a placeholder value: empty, "n/a" or "none", in any letter case
IsPlaceholder(v) == Lower(Strip(v)) \in {"", "n/a", "none"}

\* a placeholder value, "no url" included
IsAbsent(v) == Lower(Strip(v)) \in {"", "n/a", "none", "no url"}

\* a website was found for data row i: the enrichment lookup holds one that
\* is not blacklisted, or the search gave one
WebsiteFound(i) ==
    \/ /\ normalize_company_name(StoredCompany(i)) \in DOMAIN ec.lookup
       /\ ~is_blacklisted(ec.lookup[normalize_company_name(StoredCompany(i))])
    \/ ec.stats[i] = "brave_found"

C5_PlaceholdersTreatedAsAbsent ==
    \A i \in DOMAIN ec.stats :
        (StoredCompany(i) # "" /\ IsAbsent(StoredWebsite(i)))
            => ec.stats[i] # "already_has"

\* C9: the number of brave_search calls made on one date never exceeds
\* SEARCH_DAILY_LIMIT.
C9_AtMostLimitSearchesPerDay == searchesToday <= SEARCH_DAILY_LIMIT

\* C4: every cell update enrich_company_info emits (website, company info,
\* contact name, title, email, phone) is for a cell whose value in the
\* snapshot was empty or a placeholder.
C4_UpdatesOnlyPlaceholderCells ==
    \A k \in 1..Len(ei.updates) :
        IsAbsent(Cell(ei.rows[ei.updates[k].row], ei.updates[k].col))

\* C10: within one week, the companies for which non-first-run invocations
\* of enrich_company_info made Apollo calls number at most WEEKLY_LIMIT,
\* runs that stop with an error included.
C10_AtMostLimitCompaniesPerWeek == apolloThisWeek <= WEEKLY_LIMIT

-----------------------------------------------------------------------------
(* The runs that fetch: retried calls and scrape_all loops, one run after  *)
(* the other                                                               *)

InitFetch ==
    /\ sheet = <<SHEET_HEADERS>>
    /\ RunIdle
    /\ EcInit(NoFile, 0)
    /\ EiInit(NoWeekFile, 0)
    /\ MoreIdle

NextFetch ==
    \/ \E fn \in Fetchers : NetStart(fn)
    \/ NetAttempt
    \/ NetFinish
    \/ \E s \in BatchScrapers : ScStart(s)
    \/ ScItem
    \/ ScReturn
    \/ ScFinish

SpecFetch == InitFetch /\ [][NextFetch]_vars

\* C12: no call is attempted more than 3 times, and the waits between the
\* attempts of a call grow linearly (5 s, 10 s).
C12_RetriesCapped ==
    /\ Len(net.log) <= RETRY_ATTEMPTS
    /\ \A k \in 1..Len(net.waits) : net.waits[k] = RETRY_WAIT * k

\* C14: a scraper process that has ended did so with a non-zero code exactly
\* when one of its fetches failed unrecoverably (every attempt for a page
\* failed, or the list page could not be fetched), and with code 0 when it
\* succeeded or had nothing to do.
C14_ExitCodeTellsFetchFailure ==
    /\ (net.status = "exited" /\ net.fn \in {"fetch_awards", "scrape_naics"}) =>
            (net.exit # 0 <=> net.gaveUp)
    /\ (sc.pc = "exited" /\ sc.listFailed) => sc.exit # 0

\* C17: a scrape_all that has gone through its list page returns a result
\* for every record but those skipped by a filter or by their own failure
\* (a detail page or PDF error, a missing or unparsable date): whatever one
\* record meets, the others are processed and returned.
Offending(s, it) ==
    \/ it.start = "bad"
    \/ it.fetch = "fail"
    \/ it.vendor = "fail"

\* the records that scrape_all returns when each is taken alone
Kept(s, it) ==
    CASE s = "austin" -> it.naics /\ it.fetch = "ok" /\ it.start = "ok"
      [] s = "txsmartbuy" ->
            it.naics /\ (it.start = "ok" \/ (it.start = "old" /\ it.end = "ok"))
      [] OTHER -> it.fetch = "ok"

C17_FailuresIsolatedToRecord ==
    (sc.pc = "exited" /\ ~sc.listFailed) =>
        \A i \in 1..Len(sc.items) :
            (~Offending(sc.script, sc.items[i]) /\ Kept(sc.script, sc.items[i])) =>
                \E k \in 1..Len(sc.results) : sc.results[k].item = i

-----------------------------------------------------------------------------
(* Two runs of one script racing on the sheet                              *)

InitRace ==
    /\ sheet \in {<<>>, <<SHEET_HEADERS>>, <<SHEET_HEADERS, OldUsaRow>>}
    /\ RunIdle
    /\ EcInit(NoFile, 0)
    /\ EiInit(NoWeekFile, 0)
    /\ MoreIdle

NextRace ==
    \/ \E s \in RaceScripts : RaceStart(s)
    \/ \E k \in 1..2 : RaceRead(k)
    \/ \E k \in 1..2 : RaceWrite(k)
    \/ RaceFinish

SpecRace == InitRace /\ [][NextRace]_vars

\* both runs read their snapshot before either of them wrote, and both
\* have written
RacedOnSnapshot ==
    /\ race.script \in RaceScripts
    /\ Len(race.events) = 4
    /\ race.events[1].op = "read" /\ race.events[2].op = "read"

\* the rows run k writes, and the row it writes them from
RaceRowsOf(k) ==
    RaceRows(race.script, race.runs[k].results, race.runs[k].existing)

RaceStartRow(k) ==
    IF race.script = "sf" /\ race.runs[k].existing = <<>> THEN 2
    ELSE Len(race.runs[k].existing) + 1

\* C13: nothing locks the sheet.  When two runs of one script both read the
\* snapshot before either writes, neither sees the other's records: each
\* writes every record of its batch whose key is not in the snapshot, from
\* the row below the snapshot on, so that after both writes that place holds
\* the rows of the run that wrote last, followed by what is left of the
\* longer batch of the run that wrote first; a record of both batches can
\* so be in the sheet twice.
C13_RacingRunsWriteSamePlace ==
    RacedOnSnapshot =>
        LET first == race.events[3].run
            last == race.events[4].run
            start == RaceStartRow(last)
        IN  /\ race.runs[1].existing = race.runs[2].existing
            /\ RaceStartRow(first) = start
            /\ \A i \in 1..Len(RaceRowsOf(last)) :
                    SheetAN[start + i - 1] = RaceRowsOf(last)[i]
            /\ \A i \in 1..Len(RaceRowsOf(first)) :
                    i > Len(RaceRowsOf(last)) =>
                        SheetAN[start + i - 1] = RaceRowsOf(first)[i]

\* after such a race the sheet holds twice a record that both runs brought
\* and that the snapshot did not have, neither batch holding a record twice
C13_Witness ==
    /\ RacedOnSnapshot
    /\ \A k \in 1..2 : \A m, n \in 1..Len(RaceRowsOf(k)) :
            m # n => RaceRowsOf(k)[m] # RaceRowsOf(k)[n]
    /\ \E i, j \in 1..Len(SheetAN) :
        /\ i < j
        /\ i > Len(race.runs[1].existing)
        /\ SheetAN[i] = SheetAN[j]
        /\ \A k \in 1..2 : \E n \in 1..Len(RaceRowsOf(k)) : RaceRowsOf(k)[n] = SheetAN[i]

-----------------------------------------------------------------------------
(* Append runs on hand-edited sheets                                       *)

InitKeys ==
    /\ sheet \in KeySheets
    /\ RunIdle
    /\ EcInit(NoFile, 0)
    /\ EiInit(NoWeekFile, 0)
    /\ MoreIdle

NextKeys ==
    \/ \E s \in {"sf", "tn"} : VariantStart(s)
    \/ DedupAppend
    \/ UsaRemove
    \/ UsaFetch
    \/ UsaAppend

SpecKeys == InitKeys /\ [][NextKeys]_vars

\* a key field without its letter case and the spaces around it
Fold(s) ==
    CASE s \in {"Acme", "ACME", "ACME ", "acme", "acme "} -> "acme"
      [] s \in {"Bolt", "BOLT", "bolt"} -> "bolt"
      [] s \in {"c1", "C1"} -> "c1"
      [] OTHER -> s

\* the key fields of a row: company and contract name for the scrapers,
\* company, begin date and amount for import_usaspending
KeyFieldsFolded(row) ==
    IF script = "usa" THEN <<Fold(row["B"]), Fold(row["K"]), Fold(row["I"])>>
    ELSE <<Fold(row["B"]), Fold(row["H"])>>

\* the snapshot row has every cell its key is read from
HasKeyCells(row) == IF script = "usa" THEN row["B"] # "" ELSE RowLen(row) > 7

\* the run read the snapshot, wrote what it had to, and ended
DedupRunEnded ==
    /\ pc = "done" /\ results # <<>>
    /\ script \in {"sf", "tn", "usa"}
    /\ HasCall("get") /\ ~HasCall("get_failed")

\* the incoming record i is in no row the run wrote
NotAppended(i) ==
    \A p \in (Len(existing) + 1)..Len(SheetAN) : SheetAN[p] # IncomingRow(i)

\* C15: an incoming record whose key fields differ from those of a snapshot
\* row only in letter case or in the spaces around them is not appended,
\* whether or not the snapshot holds that key more than once.
C15_KeysFoldedAndTrimmed ==
    DedupRunEnded =>
        \A i \in 1..Len(results) : \A j \in 2..Len(existing) :
            (HasKeyCells(existing[j])
             /\ KeyFieldsFolded(existing[j]) = KeyFieldsFolded(IncomingRow(i)))
                => NotAppended(i)

\* the snapshot holds one key twice, in two spellings; the incoming record
\* has that key in a third spelling, and the sheet is left as it was
C15_Witness ==
    /\ DedupRunEnded
    /\ script = "sf"
    /\ existing = <<SHEET_HEADERS, ScraperRow("Acme", "c1"), ScraperRow("ACME ", "c1")>>
    /\ Len(results) = 1
    /\ results[1].company_name = "acme" /\ results[1].contract_name = "C1"
    /\ sheet = before

\* the key of a snapshot row, each missing cell read as empty
KeyOfCells(row) ==
    IF script = "usa"
    THEN <<Upper(Strip(Cell(row, "B"))), Strip(Cell(row, "K")), Strip(Cell(row, "I"))>>
    ELSE <<Lower(Strip(Cell(row, "B"))), Lower(Strip(Cell(row, "H")))>>

\* C16: a snapshot row with too few columns has its missing cells read as
\* empty when the identity index is built: an incoming record with a company
\* whose key is that of a snapshot row, missing cells taken as empty, is not
\* appended, and the run ends without an error.
C16_MissingCellsReadAsEmpty ==
    DedupRunEnded =>
        \A i \in 1..Len(results) : \A j \in 2..Len(existing) :
            (IncomingRow(i)["B"] # ""
             /\ KeyOfCells(existing[j]) = KeyOfCells(IncomingRow(i)))
                => NotAppended(i)

\* a run of enrich_companies has just loaded the counter
EcJustStarted == ec.pc = "rows" /\ ec.i = 1

\* C18: the persisted search counter is monotonic within a day: when a run
\* starts on a date on which a value was saved before (a search was made and
\* counted on that date), the value it loads is not smaller than the value
\* last saved; the counter is back at zero only after the date has changed.
C18_CounterMonotonicWithinPeriod ==
    (EcJustStarted /\ searchesToday > 0) => ec.counter.count >= counterFile.count

\* C19: every non-empty website enrich_companies puts in its updates, from
\* the enrichment lookup or from a search result, has a domain for which
\* is_blacklisted is false, and that value is what the sheet holds after the
\* write.
C19_WrittenWebsitesNotBlacklisted ==
    /\ \A i \in DOMAIN ec.updates :
            ec.updates[i] # "" => ~is_blacklisted(ec.updates[i])
    /\ ec.pc = "done" =>
            \A i \in DOMAIN ec.updates : sheet[i + 1].G = ec.updates[i]

\* a run has ended in which the lookup held a blacklisted website for a
\* company, and the company received the website found by the search
C19_Witness ==
    /\ ec.pc = "done"
    /\ \E i \in DOMAIN ec.updates :
        /\ ec.stats[i] = "brave_found"
        /\ "ACME" \in DOMAIN ec.lookup /\ is_blacklisted(ec.lookup["ACME"])
        /\ ec.updates[i] = URL_ACME /\ sheet[i + 1].G = URL_ACME

-----------------------------------------------------------------------------
(* The enrichment scripts writing their patches                            *)

InitBatch ==
    /\ sheet = <<SHEET_HEADERS>>
    /\ RunIdle
    /\ EcInit(NoFile, 0)
    /\ EiInit(NoWeekFile, 0)
    /\ MoreIdle

NextBatch ==
    \/ WbStart
    \/ WbCompany
    \/ WbFinal
    \/ WbFinalFails
    \/ WbFinish

SpecBatch == InitBatch /\ [][NextBatch]_vars

\* the patches of the calls, in the order they were sent
RECURSIVE Flatten(_)
Flatten(seqs) == IF seqs = <<>> THEN <<>> ELSE Head(seqs) \o Flatten(Tail(seqs))

\* C20: no batchUpdate call carries more than 100 cell updates, and the
\* patches sent so far followed by those still waiting are the patches the
\* run has produced, each once and in order; when the run has ended, the
\* calls having returned, every patch has been sent exactly once.
C20_BoundedBatchesExactlyOnce ==
    /\ \A c \in 1..Len(wb.sent) : Len(wb.sent[c]) \in 1..CHUNK_SIZE
    /\ wb.pc # "failed" =>
            Flatten(wb.sent) \o wb.all_updates = Patches(0, wb.produced)
    /\ wb.pc = "done" => (wb.all_updates = <<>> /\ Len(Flatten(wb.sent)) = wb.produced)
    /\ wb.pc = "failed" =>
            Flatten(wb.sent) = Patches(0, Len(Flatten(wb.sent)))

\* a run of enrich_company_info has ended that flushed more than 200 patches
\* in the loop, in calls of 100, 100 and fewer, and wrote the rest at the end
C20_Witness ==
    /\ wb.pc = "done" /\ wb.script = "info"
    /\ Len(wb.sent) = 4
    /\ Len(wb.sent[1]) = CHUNK_SIZE /\ Len(wb.sent[2]) = CHUNK_SIZE
    /\ Len(wb.sent[3]) \in 1..5
    /\ wb.produced > FLUSH_AT + 5

-----------------------------------------------------------------------------
(* osha_inspection_scraper run after run                                   *)

InitOsha ==
    /\ sheet = <<SHEET_HEADERS>>
    /\ RunIdle
    /\ EcInit(NoFile, 0)
    /\ EiInit(NoWeekFile, 0)
    /\ MoreIdle

NextOsha ==
    \/ OshaCollect2026
    \/ OshaCollect2025
    \/ OshaFinish

SpecOsha == InitOsha /\ [][NextOsha]_vars

\* the rows of a section are in descending order of violations
ByViolationsDesc(rows) ==
    \A i \in 1..(Len(rows) - 1) : rows[i].violations >= rows[i + 1].violations

\* C21: every inspection row written to the sheet has violations > 0, and
\* the rows of each written section are in descending order of violations.
C21_WrittenRowsHaveViolationsSorted ==
    \A section \in {osha.section_2026, osha.section_2025} :
        /\ \A i \in 1..Len(section) : section[i].violations > 0
        /\ ByViolationsDesc(section)

-----------------------------------------------------------------------------
(* austin_contracts.scrape_all, list page after list page                  *)

InitAustin ==
    /\ sheet = <<SHEET_HEADERS>>
    /\ RunIdle
    /\ EcInit(NoFile, 0)
    /\ EiInit(NoWeekFile, 0)
    /\ MoreIdle

NextAustin ==
    \/ AuStart
    \/ AuContract
    \/ AuReturn
    \/ AuFinish

SpecAustin == InitAustin /\ [][NextAustin]_vars

\* the criteria a contract fails, from what its pages say
FailsNaics(c) == ~c.quick \/ ~c.full
FailsDate(c) == c.begin_date_str \in {"", "11/30/2025"}
FailsAmount(c) == c.amount_str = "49,999"
FailsExpended(c) == c.amount_expended_str = "0.00"
FailsAny(c) == FailsNaics(c) \/ FailsDate(c) \/ FailsAmount(c) \/ FailsExpended(c)

SkipCounters == {"skipped_naics", "skipped_date", "skipped_amount", "skipped_not_expended"}

\* the skip counters the last pass of the loop raised by one
RaisedByLast == {k \in SkipCounters : au.count[k] = au.prev[k] + 1}

\* the loop has just gone through a contract whose pages could be read as
\* far as the filters needed them
LastWasRead == au.n > 0 /\ (au.last.fetch = "ok" \/ ~au.last.quick)

\* C22: every record among the results has amount expended > 0, amount at
\* least MIN_AMOUNT, a begin date on or after MIN_DATE and a NAICS match;
\* a contract that fails one of these is not among the results and raises
\* exactly one skip counter, by one, and a contract that fails none raises
\* no counter.
C22_ResultsPassEveryFilter ==
    /\ \A k \in 1..Len(au.results) :
        /\ au.results[k].amount_expended > 0
        /\ au.results[k].award_amount >= AUSTIN_MIN_AMOUNT
        /\ au.results[k].begin_date >= AUSTIN_MIN_DATE
        /\ au.results[k].naics
    /\ LastWasRead =>
        /\ \A k \in SkipCounters : au.count[k] \in {au.prev[k], au.prev[k] + 1}
        /\ FailsAny(au.last) => Cardinality(RaisedByLast) = 1
        /\ ~FailsAny(au.last) => RaisedByLast = {}
        /\ Len(au.results) + au.count.skipped_naics + au.count.skipped_date
              + au.count.skipped_amount + au.count.skipped_not_expended
              + au.count.errors <= au.n

\* a list page has been gone through on which one contract failed both the
\* date and the amount test, and was counted under the date only, and
\* another passed every filter
C22_Witness ==
    /\ au.pc = "returned"
    /\ Len(au.results) = 1
    /\ au.last.quick /\ au.last.full /\ au.last.fetch = "ok"
    /\ FailsDate(au.last) /\ FailsAmount(au.last)
    /\ RaisedByLast = {"skipped_date"}

-----------------------------------------------------------------------------
(* The append branch and the rows that were there before the run           *)

\* the first row the append branch of the run wrote data to; 0 when it
\* wrote no data row
FirstWrittenRow ==
    LET at == {calls[i].at : i \in {j \in 1..Len(calls) : calls[j].op = "update" /\ calls[j].at > 1}}
    IN  IF at = {} THEN 0 ELSE CHOOSE a \in at : TRUE

\* C23: an append-mode run of sf_contracts or tn_tdot_contracts leaves every
\* row the sheet held before the run where it was and as it was, whether
\* the snapshot read returned or failed, and writes its new rows strictly
\* below the last of them.
C23_AppendKeepsExistingRows ==
    (AppendRunDone /\ script \in {"sf", "tn"}) =>
        /\ \A i \in 1..Len(before) : i <= Len(sheet) /\ sheet[i] = before[i]
        /\ FirstWrittenRow # 0 => FirstWrittenRow > Len(before)

-----------------------------------------------------------------------------
(* sf_contracts --append run after run, the first on an empty sheet        *)

\* main() of sf_contracts --append up to the write, the sheet having room
SfAppendStart == FitsAfter(sheet, MaxBatch) /\ VariantStart("sf")

InitFresh ==
    /\ sheet = <<>>
    /\ RunIdle
    /\ EcInit(NoFile, 0)
    /\ EiInit(NoWeekFile, 0)
    /\ MoreIdle

NextFresh ==
    \/ SfAppendStart
    \/ DedupAppend
    \/ Finish

SpecFresh == InitFresh /\ [][NextFresh]_vars

\* C24: the sheet sf_contracts --append has built from an empty sheet never
\* holds two data rows with the same identity key, the company name and the
\* contract name trimmed and lower-cased.
C24_NoTwoRowsShareIdentityKey ==
    \A i, j \in 2..Len(sheet) :
        RowFingerprint(sheet[i]) = RowFingerprint(sheet[j]) => i = j

-----------------------------------------------------------------------------
(* The replace branch and the rows that were there before the run          *)

\* sf_contracts, txdot_contracts or tn_tdot_contracts has ended a run
\* that took the replace branch
ReplaceRunDone ==
    WroteAsScraper /\ script \in {"sf", "txdot", "tn"} /\ ~AppendMode(script, args)

\* C25: after a replace-mode write the sheet holds the header and the rows
\* of the new results, in their order, and no other cell: nothing of what
\* the sheet held before is left, whether or not the clear call failed.
C25_ReplaceLeavesOnlyNewRows ==
    ReplaceRunDone =>
        sheet = TrimRows(<<SHEET_HEADERS>> \o RowsOfResults(results))

-----------------------------------------------------------------------------
(* Two different scrapers appending to the shared sheet at the same time   *)

InitMixed ==
    /\ sheet \in {<<>>, <<SHEET_HEADERS>>, <<SHEET_HEADERS, OldUsaRow>>}
    /\ RunIdle
    /\ EcInit(NoFile, 0)
    /\ EiInit(NoWeekFile, 0)
    /\ MoreIdle

NextMixed ==
    \/ \E s1, s2 \in MixScripts : MixStart(s1, s2)
    \/ \E k \in 1..2 : MixRead(k)
    \/ \E k \in 1..2 : MixWrite(k)
    \/ MixFinish

SpecMixed == InitMixed /\ [][NextMixed]_vars

\* both runs read their snapshot before either wrote, and both have written
MixedRacedOnSnapshot ==
    /\ race.script \in {"mixed", "over"}
    /\ Len(race.events) = 4
    /\ race.events[1].op = "read" /\ race.events[2].op = "read"

\* the rows run k wrote
MixRowsOf(k) ==
    MixRows(race.runs[k].script, race.runs[k].results, race.runs[k].existing)

\* C26: when two append-mode runs of different scrapers have both read the
\* shared sheet before either wrote, every row either run wrote is in the
\* sheet after both writes.
C26_BothRunsRowsPresent ==
    MixedRacedOnSnapshot =>
        \A k \in 1..2 : \A i \in 1..Len(MixRowsOf(k)) :
            \E p \in 1..Len(sheet) : SheetAN[p] = MixRowsOf(k)[i]

-----------------------------------------------------------------------------
(* remove_under_threshold on sheets that hold USA Spending rows under and  *)
(* over the threshold and scraper rows, some of them already enriched by   *)
(* enrich_company_info (Company Info in column O)                          *)

MaxDataRows == 3

\* the header once enrich_company_info has added its two titles
EnrichedHeader == [SHEET_HEADERS EXCEPT !.O = "Company Info", !.P = "Title"]

\* the data rows of these sheets
ThresholdRows ==
    {[row EXCEPT !.O = info] :
        row \in {OldUsaRow,
                 map_to_row([recipient |-> "ACME", amount |-> 300000, start |-> "2026-01-05"]),
                 ScraperRow("Acme", "c1")},
        info \in {"", "Old info"}}

ThresholdSheets ==
    {<<EnrichedHeader>> \o rows : rows \in SeqsUpTo(ThresholdRows, MaxDataRows)}

InitRemove ==
    /\ sheet \in ThresholdSheets
    /\ RunIdle
    /\ EcInit(NoFile, 0)
    /\ EiInit(NoWeekFile, 0)
    /\ MoreIdle

NextRemove ==
    \/ UsaRemove
    \/ UsaRemoveReadFails
    \/ Finish

SpecRemove == InitRemove /\ [][NextRemove]_vars

\* the row is a USA Spending row whose amount is under MIN_AMOUNT
UnderThreshold(row) ==
    IsUsaSpendingLink(Strip(row["L"])) /\ parse_amount(Strip(row["I"])) < MIN_AMOUNT

\* the rows of the sheet before the run that the removal has to keep
RowsToStay ==
    LET Stays(row) == ~UnderThreshold(row)
    IN  <<before[1]>> \o SelectSeq(SubSeq(before, 2, Len(before)), Stays)

RemoveDone == pc = "cleaned" /\ script = "usa" /\ Len(before) >= 2

\* C27: remove_under_threshold takes out the USA Spending rows under
\* MIN_AMOUNT and nothing else: the header and the other rows are left with
\* all their cells, in their order, and when no row is under the threshold
\* the sheet is neither cleared nor rewritten.
C27_RemovesOnlyRowsUnderThreshold ==
    RemoveDone =>
        /\ sheet = TrimRows(RowsToStay)
        /\ Len(RowsToStay) = Len(before) => ~HasCall("clear") /\ ~HasCall("update")

-----------------------------------------------------------------------------
(* The page loops against a source that answers as it likes.  A loop that  *)
(* is running goes through its next pass.                                   *)

InitPages ==
    /\ sheet = <<SHEET_HEADERS>>
    /\ RunIdle
    /\ EcInit(NoFile, 0)
    /\ EiInit(NoWeekFile, 0)
    /\ MoreIdle

NextPages ==
    \/ \E fn \in PageLoops : PgStart(fn)
    \/ PgPage
    \/ PgFinish

SpecPages == InitPages /\ [][NextPages]_vars

SpecPagesFair == SpecPages /\ WF_vars(PgPage)

\* C28: each page loop ends: fetch_all_awards, scrape_naics and
\* search_contracts, once entered, come to the point where they return the
\* pages collected (or end on an exception), whatever the source answers.
C28_PageLoopsEnd == (pg.pc = "looping") ~> (pg.pc \in {"returned", "raised"})

====
